---- MODULE Spec2Model ----
(***************************************************************************)
(* Model of the document-assembly pipeline of src/core_to_be_split.py:     *)
(* render_html (orchestrator), _render_table_fragment_to_file (fragment    *)
(* task), _default_write_atomic (write-to-temp, then rename) and the       *)
(* split path of render_html.                                              *)
(*                                                                         *)
(* Spec       one render_html invocation on the single-document path:      *)
(*            the fragment tasks run on the worker pool and interleave     *)
(*            row by row, the orchestrator collects, decides the           *)
(*            fallback, assembles and writes the final document.           *)
(* SpecFrag   the same on one table of up to MaxRows rows.                 *)
(* SpecPool   the same on tables of one row, for pool sizes below and      *)
(*            above the table count.                                       *)
(* SpecCells  the same on tables of several columns, with a renderer that  *)
(*            raises on some cells.                                        *)
(* SpecProgress the same with a progress callback.                         *)
(* SpecSplit  the split path of render_html with its recursive calls.      *)
(* SpecParts  the split path with a row limit and failing writes.          *)
(* SpecDir    the single-document path with the fragment directory         *)
(*            created, or with the fragments written to out_dir.           *)
(* SpecTitles _derive_titles and _sanitize_id on tables with and without   *)
(*            title, name, rows and columns.                               *)
(* SpecMeta   the fragment markup of one table and the metadata the        *)
(*            orchestrator extracts from it.                               *)
(* SpecRuns   two invocations of render_html on one output directory.      *)
(***************************************************************************)
EXTENDS Integers, Sequences, FiniteSets, TLC

\* ------------------------------------------------------------- bounds
MaxTables == 2
MaxRows == 3
MaxFaults == 1
MaxSplitTables == 3
MaxSplitRows == 5
MaxThreshold == 8
MaxDepth == 3
MaxCols == 2
MaxTitleTables == 2
MaxMetaRows == 2
MaxClock == 2
MaxRunTables == 2

\* RenderConfig.max_workers values tried (4 is the default of RenderConfig)
WorkerChoices == {1, 4}
\* Spec: the row counts of the input tables (an empty table, a table with a row)
RowChoices == {0, 1}
\* Spec: RenderConfig.table_row_limit values tried (0 is the default: no limit)
LimitChoices == {0, 1}
\* newline characters the markdown renderer puts into one rendered row
NlChoices == {0, 1}
\* RenderConfig.progress_callback: None (the default), a callable that
\* returns, a callable that raises
NoCallback == {"none"}
CallbackChoices == {"none", "ok", "raises"}
\* SpecCells: the row counts of the table whose cells are rendered
CellRowChoices == {0, 1, 2}

VARIABLES
  tables,         \* tables_list: sequence of tables, a table is [n |-> its number of
                  \* rows, cols |-> its number of columns]
  cfg,            \* RenderConfig: [table_row_limit, max_workers, split_threshold,
                  \* progress_callback]
  renderer,       \* markdown_to_html: [nl |-> newline characters per rendered row,
                  \* fails |-> the cells <<table, row, column>> on whose text it raises]
  tmp_frag_dir,   \* render_html local: the directory the fragment files are written to
  dirs,           \* the directories that exist
  cancel,         \* cfg.cancel_event.is_set()
  task,           \* per table index: the fragment task (future) and its locals
  fragTmp,        \* per table index: the file frag_{i}.html.tmp
  fragFile,       \* per table index: the file frag_{i}.html
  opc,            \* position of render_html
  collected,      \* futures already yielded by as_completed
  finished_tables,\* render_html local: the fragments collected so far
  progress,       \* the calls cfg.progress_callback received, in order
  fragments_map,  \* render_html local: idx -> fragment meta
  fragOrder,      \* insertion order of the keys of fragments_map
  total_rows,     \* render_html local
  warnings,       \* render_html local
  need_fallback,  \* render_html local
  toc_items,      \* render_html local: table idx of each toc entry, in order
  body_parts,     \* render_html local: frag_paths_ordered or inline_parts
  wpos,           \* position of the final writer in body_parts
  outTmp,         \* the file <out_path>.tmp
  outFile,        \* the file <out_path>
  outOld,         \* history: outFile when render_html was called
  result,         \* the value render_html returned
  faultsLeft,     \* induced failures (raised exceptions) the environment may still inject
  dfs,            \* SpecTitles: the tables handed to the fragment tasks, a table is
                  \* [title, name, sample_rows, cols, cells]
  titles,         \* SpecTitles: per table index, what _derive_titles returned
  contents,       \* SpecTitles: per table index, the text of frag_{i}.html as read back
  metas,          \* SpecTitles: per table index, the entry of fragments_map
  clock,          \* SpecRuns: int(time.time() * 1000)
  runs,           \* SpecRuns: the render_html invocations on one output directory
  disk,           \* SpecRuns: the fragment directories and fragment files below out_dir
  stack,          \* SpecSplit: the call stack of render_html, the running call last
  written         \* SpecSplit: the documents written so far

mvars == <<tables, cfg, renderer, tmp_frag_dir, dirs, cancel, task, fragTmp, fragFile, opc, collected,
           finished_tables, progress,
           fragments_map, fragOrder, total_rows, warnings, need_fallback,
           toc_items, body_parts, wpos, outTmp, outFile, outOld, result, faultsLeft>>
svars == <<stack, written>>
tvars == <<dfs, titles, contents, metas>>
rvars == <<clock, runs, disk>>
xvars == <<tvars, rvars>>
vars == <<mvars, svars, xvars>>

\* ------------------------------------------------------------ helpers
RECURSIVE SumSeq(_)
SumSeq(s) == IF s = <<>> THEN 0 ELSE Head(s) + SumSeq(Tail(s))

RECURSIVE SeqsUpTo(_, _)
\* all sequences over S of length 0..k
SeqsUpTo(S, k) ==
  IF k = 0 THEN {<<>>}
  ELSE LET shorter == SeqsUpTo(S, k - 1)
       IN shorter \cup {Append(s, x) : s \in {t \in shorter : Len(t) = k - 1}, x \in S}

Range(s) == {s[k] : k \in DOMAIN s}

IsAscending(s) == \A a, b \in DOMAIN s : a < b => s[a] < s[b]

RECURSIVE SortedSeq(_)
\* sorted(keys): the elements of a finite set of integers, ascending
SortedSeq(S) ==
  IF S = {} THEN <<>>
  ELSE LET m == CHOOSE x \in S : \A y \in S : x <= y
       IN <<m>> \o SortedSeq(S \ {m})

Warn(level, msg, tbl) == [level |-> level, msg |-> msg, table |-> tbl]

\* --------------------------------------------------------------- files
\* out_dir (line 974) and the directory .frags_<ms> below it (line 1178)
OutDir == "out_dir"
FragsDir == "out_dir/.frags"
\* the id _derive_titles gives the title heading of table i (_sanitize_id of
\* its display title), and the id "Table{i}" used when no heading is found;
\* the tables of the pipeline specifications carry titles with different
\* ids, SpecTitles computes the ids from the titles themselves
TitleId(i) == <<"title", i>>
DefaultTitleId(i) == <<"Table", i>>

\* line 499: table_id = _sanitize_id(f"Table{idx}", idx), the id of the wrapper
TableId(i) == <<"table", i>>

\* mutant: the attribute carries the 1-based fragment index
DataTableIndexOneBased(idx) == idx
\* lines 528-532 and 547: data-table-index="{idx-1}"
DataTableIndex(idx) == idx - 1

\* lines 546-558: the <th> of the column at 0-based position c and the sort
\* button inside it
HeaderCell(i, c) ==
  [id |-> <<TableId(i), "th", c>>, table_index |-> DataTableIndex(i), col_index |-> c,
   sort_table_index |-> DataTableIndex(i), sort_col_index |-> c]
\* line 545: for i, col in enumerate(cols)
Thead(i, ncols) == [p \in 1..ncols |-> HeaderCell(i, p - 1)]
\* lines 528-532: the data-table-index of the copy-plain, copy-markdown and
\* toggle buttons
HeaderButtons(i) == <<DataTableIndex(i), DataTableIndex(i), DataTableIndex(i)>>

\* A fragment file: the table it renders, the id of its <h3> title heading,
\* the header buttons and the header cells, its data rows in file order and
\* their cells, the number of newline characters in it, whether the closing
\* markup was written, and the number shown in its table-summary footer.
NoFile ==
  [exists |-> FALSE, idx |-> 0, title |-> <<>>, buttons |-> <<>>, thead |-> <<>>,
   rows |-> <<>>, cells |-> <<>>, nl |-> 0, closed |-> FALSE, summary |-> 0]
NewFragFile(i) ==
  [exists |-> TRUE, idx |-> i, title |-> TitleId(i), buttons |-> HeaderButtons(i),
   thead |-> Thead(i, tables[i].cols),
   rows |-> <<>>, cells |-> <<>>, nl |-> 0, closed |-> FALSE, summary |-> 0]

\* The final document: toc entries, body pieces, and whether the closing
\* markup was written.  OldDoc is a complete previous version.
NoDoc == [exists |-> FALSE, toc |-> <<>>, body |-> <<>>, complete |-> FALSE, old |-> FALSE]
OldDoc == [exists |-> TRUE, toc |-> <<>>, body |-> <<>>, complete |-> TRUE, old |-> TRUE]
EmptyDoc == [exists |-> TRUE, toc |-> <<>>, body |-> <<>>, complete |-> FALSE, old |-> FALSE]

\* _default_write_atomic: os.replace(tmp, path) promotes the temporary file
AtomicReplace(dst, tmp) == tmp
\* mutant: os.replace sits in a finally clause and promotes the partial file
AtomicAbortPromotes(dst, tmp) == tmp
\* _default_write_atomic: the writer raised inside the with block, os.replace
\* is not reached and the destination keeps what it held
AtomicAbort(dst, tmp) == dst

\* ------------------------------------------------------- configuration
N == Len(tables)
Idx == 1..N

Min(a, b) == IF a <= b THEN a ELSE b
Max(a, b) == IF a >= b THEN a ELSE b

\* mutant: the pool is sized by the configured maximum alone
WorkerCountIgnoresTables == Max(1, cfg.max_workers)
\* worker_count = max(1, min(len(tables_list) or 1, cfg.max_workers))
WorkerCount == Max(1, Min(IF N = 0 THEN 1 ELSE N, cfg.max_workers))

\* the rows the row stream of a table yields, in order: 1..n
RowStream(t) == [k \in 1..t.n |-> k]

\* ------------------------------------------------------- fragment task
\* mutant: the limit test is off by one
LimitExceededOffByOne(r_idx, limit) == limit # 0 /\ r_idx >= limit
\* "if table_row_limit and r_idx > table_row_limit"
LimitExceeded(r_idx, limit) == limit # 0 /\ r_idx > limit

\* mutant: the loop does not look at the flag
CancelNeverSeen(flag) == FALSE
\* "if cancel_event and cancel_event.is_set()"
CancelSeen(flag) == flag

\* final_count: the lines of frag_file re-read after the write, 0 when the
\* file cannot be opened.  The writer emits no newline of its own and the file
\* ends with "</div>", so a file has one line more than newline characters.
FinalCount(file) == IF file.exists THEN file.nl + 1 ELSE 0

\* an induced failure: some call raises
Fault == faultsLeft > 0 /\ faultsLeft' = faultsLeft - 1
NoFault == UNCHANGED faultsLeft

\* the warnings the fragment task records (lines 569, 573, 634, 648)
CanceledWarning(i) == Warn("warn", "canceled", i)
RowLimitWarning(i) == Warn("warn", "table_row_limit exceeded", i)
\* mutant: the warning does not name the table
RowIterationWarningNoTable(i) == Warn("error", "row iteration failed", 0)
RowIterationWarning(i) == Warn("error", "row iteration failed", i)
FragmentWriteWarning(i) == Warn("error", "fragment write failed", i)

\* line 593: the warning recorded when the renderer raises on a cell
MarkdownFailedWarning(i, r_idx, col_i) ==
  [level |-> "warn", msg |-> "markdown render failed", table |-> i, row |-> r_idx, col |-> col_i]

\* mutant: a cell on which the renderer raises is left out of the row
RowCellsDropFailed(i, row) ==
  LET ok == {c \in 0..(tables[i].cols - 1) : <<i, row, c>> \notin renderer.fails} IN
  [p \in 1..Cardinality(ok) |->
     [col |-> CHOOSE c \in ok : Cardinality({d \in ok : d < c}) = p - 1, out |-> "html"]]
\* lines 584-631: the <td> cells of a row, in column order; a cell holds the
\* rendered html, or the escaped text when renderer.render raised (line 592)
RowCells(i, row) ==
  [p \in 1..tables[i].cols |->
     [col |-> p - 1,
      out |-> IF <<i, row, p - 1>> \in renderer.fails THEN "escaped" ELSE "html"]]
\* line 593, for the cells of one row in column order
RECURSIVE RowWarnings(_, _, _, _)
RowWarnings(i, row, r_idx, col_i) ==
  IF col_i >= tables[i].cols THEN <<>>
  ELSE (IF <<i, row, col_i>> \in renderer.fails
        THEN <<MarkdownFailedWarning(i, r_idx, col_i)>> ELSE <<>>)
       \o RowWarnings(i, row, r_idx, col_i + 1)

\* mutant: the row is put in front of the rows written before
AppendRowInFront(file, row, cells, nl) ==
  [file EXCEPT !.rows = <<row>> \o @, !.cells = <<cells>> \o @, !.nl = @ + nl]
\* line 632: f.write("<tr>...</tr>") puts the row after what the file holds
AppendRow(file, row, cells, nl) ==
  [file EXCEPT !.rows = Append(@, row), !.cells = Append(@, cells), !.nl = @ + nl]

NewTask == [pc |-> "queued", it |-> 0, r_idx |-> 0, warns |-> <<>>, cancelAt |-> 0, rcount |-> 0]

Running(i) == task[i].pc \in {"loop", "row", "close"}
\* mutant: as_completed yields a future as soon as its task has started
FinishedOrStarted(i) == task[i].pc \notin {"queued", "cancelled"}
Finished(i) == task[i].pc \in {"done", "raised"}

TaskVarsUnchanged ==
  UNCHANGED <<tables, cfg, renderer, xvars, tmp_frag_dir, dirs, cancel, opc, collected, finished_tables, progress,
                 fragments_map, fragOrder, total_rows,
              warnings, need_fallback, toc_items, body_parts, wpos, outTmp, outFile,
              outOld, result, stack, written>>

\* A worker takes the next queued task: lines 498-518 run, the temporary file
\* is opened and the wrapper, title and thead are written.
TaskStart(i) ==
  /\ opc \in {"collect", "interrupted"}
  /\ task[i].pc = "queued"
  /\ \A j \in 1..(i - 1) : task[j].pc # "queued"
  /\ Cardinality({j \in Idx : Running(j)}) < WorkerCount
  /\ \/ /\ task' = [task EXCEPT ![i].pc = "loop"]
        /\ fragTmp' = [fragTmp EXCEPT ![i] = NewFragFile(i)]
        /\ UNCHANGED fragFile
        /\ NoFault
     \/ \* preparing the stream, the titles or the headers raises: the future fails
        /\ Fault
        /\ task' = [task EXCEPT ![i].pc = "raised"]
        /\ UNCHANGED <<fragTmp, fragFile>>
     \/ \* open() or a header write raises: "fragment write failed"
        /\ Fault
        /\ task' = [task EXCEPT ![i].pc = "done",
                                ![i].warns = Append(@, FragmentWriteWarning(i)),
                                ![i].rcount = FinalCount(AtomicAbort(fragFile[i], fragTmp[i]))]
        /\ fragFile' = [fragFile EXCEPT ![i] = AtomicAbort(fragFile[i], fragTmp[i])]
        /\ UNCHANGED fragTmp
  /\ TaskVarsUnchanged

\* Head of the row loop: fetch the next row, check the cancel flag, count the
\* row, check the row limit (lines 567-574).
TaskCheck(i) ==
  /\ task[i].pc = "loop"
  /\ IF task[i].it >= Len(RowStream(tables[i]))
     THEN task' = [task EXCEPT ![i].pc = "close"] /\ NoFault
     ELSE \/ \* the iterator raises: "row iteration failed"
             /\ Fault
             /\ task' = [task EXCEPT ![i].pc = "close",
                                     ![i].warns = Append(@, RowIterationWarning(i))]
          \/ LET row == RowStream(tables[i])[task[i].it + 1] IN
             /\ NoFault
             /\ IF CancelSeen(cancel)
                THEN task' = [task EXCEPT ![i].pc = "close",
                                          ![i].it = @ + 1,
                                          ![i].cancelAt = row,
                                          ![i].warns = Append(@, CanceledWarning(i))]
                ELSE IF LimitExceeded(task[i].r_idx + 1, cfg.table_row_limit)
                THEN task' = [task EXCEPT ![i].pc = "close",
                                          ![i].it = @ + 1,
                                          ![i].r_idx = @ + 1,
                                          ![i].warns = Append(@, RowLimitWarning(i))]
                ELSE task' = [task EXCEPT ![i].pc = "row", ![i].it = @ + 1, ![i].r_idx = @ + 1]
  /\ UNCHANGED <<fragTmp, fragFile>>
  /\ TaskVarsUnchanged

\* Body of the row loop: the cells are rendered and "<tr>...</tr>" is written
\* (lines 575-632); an exception that leaves the processing of the row (the
\* row cannot be enumerated, a value whose str() raises also in the handler of
\* line 602, a failing write) is caught by the except of line 633, outside the
\* loop.
TaskWriteRow(i) ==
  /\ task[i].pc = "row"
  /\ \/ LET row == RowStream(tables[i])[task[i].it] IN
        /\ fragTmp' = [fragTmp EXCEPT ![i] = AppendRow(@, row, RowCells(i, row), renderer.nl)]
        /\ task' = [task EXCEPT ![i].pc = "loop",
                                ![i].warns = @ \o RowWarnings(i, row, task[i].r_idx, 0)]
        /\ NoFault
     \/ /\ Fault
        /\ task' = [task EXCEPT ![i].pc = "close",
                                ![i].warns = Append(@, RowIterationWarning(i))]
        /\ UNCHANGED fragTmp
  /\ UNCHANGED fragFile
  /\ TaskVarsUnchanged

\* After the loop: closing markup and summary, os.replace, the line count of
\* the re-read file, return (lines 636-659).
TaskFinish(i) ==
  /\ task[i].pc = "close"
  /\ \/ LET closedTmp == [fragTmp[i] EXCEPT !.closed = TRUE, !.summary = task[i].r_idx]
            promoted == AtomicReplace(fragFile[i], closedTmp) IN
        /\ fragFile' = [fragFile EXCEPT ![i] = promoted]
        /\ fragTmp' = [fragTmp EXCEPT ![i] = NoFile]
        /\ task' = [task EXCEPT ![i].pc = "done", ![i].rcount = FinalCount(promoted)]
        /\ NoFault
     \/ \* a closing write or os.replace raises: "fragment write failed"
        /\ Fault
        /\ fragFile' = [fragFile EXCEPT ![i] = AtomicAbort(fragFile[i], fragTmp[i])]
        /\ task' = [task EXCEPT ![i].pc = "done",
                                ![i].warns = Append(@, FragmentWriteWarning(i)),
                                ![i].rcount = FinalCount(AtomicAbort(fragFile[i], fragTmp[i]))]
        /\ UNCHANGED fragTmp
  /\ TaskVarsUnchanged

\* The caller sets the shared cancel flag while the render runs.
SetCancel ==
  /\ ~cancel
  /\ opc = "collect"
  /\ cancel' = TRUE
  /\ UNCHANGED <<tables, cfg, renderer, xvars, tmp_frag_dir, dirs, task, fragTmp, fragFile, opc, collected, finished_tables, progress,
                 fragments_map,
                 fragOrder, total_rows, warnings, need_fallback, toc_items, body_parts,
                 wpos, outTmp, outFile, outOld, result, faultsLeft, stack, written>>

\* -------------------------------------------------------- orchestrator
NoResult == [returned |-> FALSE, warnings |-> <<>>, tables |-> -1, rows |-> -1, output |-> "none"]

\* line 1363: the result of the success path
SuccessResult(ws, ntables, nrows) ==
  [returned |-> TRUE, warnings |-> ws, tables |-> ntables, rows |-> nrows, output |-> "out_path"]

\* mutant: the write-failure path reports the output path all the same
WriteFailedResultWithOutput(ws) ==
  [returned |-> TRUE, warnings |-> ws, tables |-> -1, rows |-> -1, output |-> "out_path"]
\* line 1351: the result of the write-failure path (tables and rows None, no output key)
WriteFailedResult(ws) ==
  [returned |-> TRUE, warnings |-> ws, tables |-> -1, rows |-> -1, output |-> "none"]

\* mutant: the content is never read back
ReadContentEmpty(file) == NoFile
\* lines 1210-1215: the content read back from the fragment file, "" when it
\* cannot be opened
ReadContent(file) == IF file.exists THEN file ELSE NoFile

\* mutant: the toc entry is always anchored to "Table{i}"
ExtractTitleIdDefault(content, i) == DefaultTitleId(i)
\* lines 1219-1233: the id of the first <h3 id=...> of the content, "Table{i}"
\* when the content is empty or has none
ExtractTitleId(content, i) ==
  IF content.exists /\ content.title # <<>> THEN content.title ELSE DefaultTitleId(i)

\* _frag_contains_rows: content is non-empty and matches <tbody>\s*<tr
FragContainsRows(content) == content.exists /\ Len(content.rows) > 0

\* mutant: only the empty fragment map triggers the fallback
NeedFallbackOnlyWhenEmpty(fmap) == DOMAIN fmap = {}
\* lines 1263-1271
NeedFallback(fmap) ==
  \/ DOMAIN fmap = {}
  \/ ~ \E i \in DOMAIN fmap : FragContainsRows(fmap[i].content)

\* mutant: the keys are taken in insertion (completion) order
AssemblyOrderByCompletion(fmap, order) == order
\* line 1283: for idx in sorted(fragments_map.keys())
AssemblyOrder(fmap, order) == SortedSeq(DOMAIN fmap)

\* a body piece: a fragment path (heading and rows read at write time) or an
\* inline piece, whose heading is <h3 id='Table{i}'>
FragPiece(i) == [idx |-> i, inline |-> FALSE, head |-> <<>>, rows |-> <<>>, failed |-> FALSE]
\* mutant: a table whose inline rendering failed gets no heading
InlinePieceNoPlaceholder(i, ok) ==
  [idx |-> i, inline |-> TRUE, head |-> IF ok THEN DefaultTitleId(i) ELSE <<>>,
   rows |-> IF ok THEN RowStream(tables[i]) ELSE <<>>, failed |-> ~ok]
\* lines 1297-1302: the heading and df.to_html, or the heading and the
\* "(failed to render table)" placeholder
InlinePiece(i, ok) ==
  [idx |-> i, inline |-> TRUE, head |-> DefaultTitleId(i),
   rows |-> IF ok THEN RowStream(tables[i]) ELSE <<>>, failed |-> ~ok]
\* lines 1304-1312: the id of the first <h3 id=...> of the piece, "Table{i}"
\* when it has none
InlineTitleId(piece, i) == IF piece.head # <<>> THEN piece.head ELSE DefaultTitleId(i)

\* one entry of toc_items: a link to #title_id for table i
TocItem(i, title_id) == [idx |-> i, anchor |-> title_id]

\* mutant: the failure of a task is recorded at warn level
TaskFailedWarningAsWarn == Warn("warn", "table render failed", 0)
\* line 1248: the warning recorded when fut.result() raises
TaskFailedWarning == Warn("error", "table render failed", 0)

\* lines 1266 and 1271: the warnings explaining the fallback
NoFragmentsWarning == Warn("warn", "no fragments produced; falling back to inline rendering", 0)
NoRowsWarning == Warn("warn", "fragments contain no rows; falling back to inline rendering", 0)

\* mutant: what the callback raises reaches the except of line 1247
CallbackOutcomeEscapes(cb, ws) == IF cb = "raises" THEN Append(ws, TaskFailedWarning) ELSE ws
\* lines 1242-1245: the callback runs in its own try, what it raises is dropped
CallbackOutcome(cb, ws) == ws

\* line 1350: the warning of the write-failure path
WriteFailedWarning == Warn("error", "write_failed", 0)

\* line 1243: the arguments of one call of the callback
ProgressArgs(finished, total) == <<finished, total>>
\* lines 1241-1243: the callback is called when one is configured
CallProgress(cb, log, finished, total) ==
  IF cb # "none" THEN Append(log, ProgressArgs(finished, total)) ELSE log

\* as_completed yields a finished future (lines 1207-1248)
Collect(i) ==
  /\ opc = "collect"
  /\ i \notin collected
  /\ Finished(i)
  /\ collected' = collected \cup {i}
  /\ IF task[i].pc = "done"
     THEN /\ fragments_map' =
               [k \in DOMAIN fragments_map \cup {i} |->
                  IF k = i
                  THEN [content |-> ReadContent(fragFile[i]),
                        title_id |-> ExtractTitleId(ReadContent(fragFile[i]), i)]
                  ELSE fragments_map[k]]
          /\ fragOrder' = Append(fragOrder, i)
          /\ total_rows' = total_rows + task[i].rcount
          /\ finished_tables' = finished_tables + 1
          /\ progress' = CallProgress(cfg.progress_callback, progress, finished_tables + 1, N)
          /\ warnings' = CallbackOutcome(cfg.progress_callback, warnings \o task[i].warns)
     ELSE /\ warnings' = Append(warnings, TaskFailedWarning)
          /\ UNCHANGED <<fragments_map, fragOrder, total_rows, finished_tables, progress>>
  /\ UNCHANGED <<tables, cfg, renderer, xvars, tmp_frag_dir, dirs, cancel, task, fragTmp, fragFile, opc, need_fallback,
                 toc_items, body_parts, wpos, outTmp, outFile, outOld, result, faultsLeft,
                 stack, written>>

\* mutant: the handler re-raises without cancelling the futures
CancelPendingNone(t) == t
\* lines 1250-1254: fut.cancel() on every submitted future; it takes effect on
\* the futures that have not started
CancelPending(t) == IF t.pc = "queued" THEN [t EXCEPT !.pc = "cancelled"] ELSE t

\* the result slot when KeyboardInterrupt left render_html (line 1255)
InterruptRaised ==
  [returned |-> FALSE, warnings |-> <<>>, tables |-> -1, rows |-> -1, output |-> "KeyboardInterrupt"]

\* KeyboardInterrupt arrives in the collection loop (lines 1206-1255): the
\* handler cancels the futures and re-raises; leaving the with block waits for
\* the running tasks
Interrupt ==
  /\ opc = "collect"
  /\ collected # Idx
  /\ task' = [i \in Idx |-> CancelPending(task[i])]
  /\ result' = InterruptRaised
  /\ opc' = "interrupted"
  /\ UNCHANGED <<tables, cfg, renderer, xvars, tmp_frag_dir, dirs, cancel, fragTmp, fragFile, collected, finished_tables, progress,
                 fragments_map,
                 fragOrder, total_rows, warnings, need_fallback, toc_items, body_parts, wpos,
                 outTmp, outFile, outOld, faultsLeft, stack, written>>

\* all futures are collected, the pool is shut down: the fallback decision
Decide ==
  /\ opc = "collect"
  /\ collected = Idx
  /\ need_fallback' = NeedFallback(fragments_map)
  /\ warnings' =
       IF DOMAIN fragments_map = {}
       THEN Append(warnings, NoFragmentsWarning)
       ELSE IF NeedFallback(fragments_map)
       THEN Append(warnings, NoRowsWarning)
       ELSE warnings
  /\ opc' = "assemble"
  /\ UNCHANGED <<tables, cfg, renderer, xvars, tmp_frag_dir, dirs, cancel, task, fragTmp, fragFile, collected, finished_tables, progress,
                 fragments_map,
                 fragOrder, total_rows, toc_items, body_parts, wpos, outTmp, outFile,
                 outOld, result, faultsLeft, stack, written>>

\* lines 1278-1316: the toc and the ordered body pieces
Assemble ==
  /\ opc = "assemble"
  /\ IF ~need_fallback
     THEN LET order == AssemblyOrder(fragments_map, fragOrder) IN
          /\ toc_items' = [k \in DOMAIN order |->
                             TocItem(order[k], fragments_map[order[k]].title_id)]
          /\ body_parts' = [k \in DOMAIN order |-> FragPiece(order[k])]
          /\ NoFault
     ELSE \E failing \in SUBSET Idx :
          /\ Cardinality(failing) <= faultsLeft
          /\ faultsLeft' = faultsLeft - Cardinality(failing)
          /\ toc_items' = [k \in Idx |->
                             TocItem(k, InlineTitleId(InlinePiece(k, k \notin failing), k))]
          /\ body_parts' = [k \in Idx |-> InlinePiece(k, k \notin failing)]
  /\ opc' = "open"
  /\ UNCHANGED <<tables, cfg, renderer, xvars, tmp_frag_dir, dirs, cancel, task, fragTmp, fragFile, collected, finished_tables, progress,
                 fragments_map,
                 fragOrder, total_rows, warnings, need_fallback, wpos, outTmp, outFile,
                 outOld, result, stack, written>>

OrchFrame ==
  UNCHANGED <<tables, cfg, renderer, xvars, tmp_frag_dir, dirs, cancel, task, fragTmp, fragFile, collected, finished_tables, progress,
                 fragments_map,
              fragOrder, total_rows, need_fallback, toc_items, body_parts, outOld, stack, written>>

\* what the writer copies for one body piece: an inline piece as it is, a
\* fragment as read from its file, nothing when the file cannot be opened
\* ("except Exception: continue")
RECURSIVE CopyPieces(_, _)
CopyPieces(pieces, files) ==
  IF pieces = <<>> THEN <<>>
  ELSE LET piece == Head(pieces)
           copied == IF piece.inline
                     THEN <<[idx |-> piece.idx, head |-> piece.head, rows |-> piece.rows]>>
                     ELSE IF files[piece.idx].exists
                     THEN <<[idx |-> files[piece.idx].idx, head |-> files[piece.idx].title,
                             rows |-> files[piece.idx].rows]>>
                     ELSE <<>>
       IN copied \o CopyPieces(Tail(pieces), files)

\* _default_write_atomic(out_path, writer): open(tmp, "w"), then the writer
\* writes the head parts, the sticky header and the toc
FinalOpen ==
  /\ opc = "open"
  /\ outTmp' = [EmptyDoc EXCEPT !.toc = toc_items]
  /\ opc' = "body"
  /\ UNCHANGED <<wpos, outFile, warnings, result, faultsLeft>>
  /\ OrchFrame

\* writer: the fragments are copied in the order of frag_paths_ordered, or the
\* inline pieces are written
FinalWriteBody ==
  /\ opc = "body"
  /\ outTmp' = [outTmp EXCEPT !.body = CopyPieces(body_parts, fragFile)]
  /\ wpos' = Len(body_parts)
  /\ opc' = "tail"
  /\ UNCHANGED <<outFile, warnings, result, faultsLeft>>
  /\ OrchFrame

\* writer: bottom script parts and the closing markup; the file is closed
FinalWriteTail ==
  /\ opc = "tail"
  /\ outTmp' = [outTmp EXCEPT !.complete = TRUE]
  /\ opc' = "replace"
  /\ UNCHANGED <<wpos, outFile, warnings, result, faultsLeft>>
  /\ OrchFrame

\* os.replace(tmp, out_path), then the result of line 1363
FinalReplace ==
  /\ opc = "replace"
  /\ outFile' = AtomicReplace(outFile, outTmp)
  /\ outTmp' = NoDoc
  /\ result' = [SuccessResult(warnings, Len(tables), total_rows) EXCEPT !.returned = FALSE]
  /\ opc' = "cleanup"
  /\ UNCHANGED <<wpos, warnings, faultsLeft>>
  /\ OrchFrame

\* open, a write of the writer or os.replace raises: lines 1348-1351
FinalWriteFails ==
  /\ opc \in {"open", "body", "tail", "replace"}
  /\ Fault
  /\ outFile' = AtomicAbort(outFile, outTmp)
  /\ warnings' = Append(warnings, WriteFailedWarning)
  /\ result' = WriteFailedResult(Append(warnings, WriteFailedWarning))
  /\ opc' = "failed"
  /\ UNCHANGED <<wpos, outTmp>>
  /\ OrchFrame

\* the guard of line 1372
\* mutant: the directory is removed whenever it exists
RemovesFragDirAlways(d, existing) == d \in existing
RemovesFragDir(d, existing) == d \in existing /\ d # OutDir
\* what shutil.rmtree(d) leaves of the document at out_path, a file of out_dir
RmTreeDoc(d, doc) == IF d = OutDir THEN NoDoc ELSE doc

\* lines 1370-1377: the fragment directory is removed, the result returned
Cleanup ==
  /\ opc = "cleanup"
  /\ \/ /\ RemovesFragDir(tmp_frag_dir, dirs)
        /\ dirs' = dirs \ {tmp_frag_dir}
        /\ fragFile' = [i \in Idx |-> NoFile]
        /\ fragTmp' = [i \in Idx |-> NoFile]
        /\ outFile' = RmTreeDoc(tmp_frag_dir, outFile)
        /\ NoFault
     \/ \* shutil.rmtree raises after it removed some of the files; the
        \* exception is swallowed (lines 1374-1375)
        /\ RemovesFragDir(tmp_frag_dir, dirs)
        /\ Fault
        /\ \E gone \in SUBSET Idx :
             /\ fragFile' = [i \in Idx |-> IF i \in gone THEN NoFile ELSE fragFile[i]]
             /\ fragTmp' = [i \in Idx |-> IF i \in gone THEN NoFile ELSE fragTmp[i]]
        /\ UNCHANGED <<dirs, outFile>>
     \/ /\ ~RemovesFragDir(tmp_frag_dir, dirs)
        /\ UNCHANGED <<dirs, fragFile, fragTmp, outFile, faultsLeft>>
  /\ result' = [result EXCEPT !.returned = TRUE]
  /\ opc' = "returned"
  /\ UNCHANGED <<tables, cfg, renderer, xvars, tmp_frag_dir, cancel, task, collected, finished_tables, progress,
                 fragments_map, fragOrder, total_rows,
                 warnings, need_fallback, toc_items, body_parts, wpos, outTmp,
                 outOld, stack, written>>

\* ------------------------------------------------------- specification
TableInputs == SeqsUpTo([n : RowChoices, cols : {1}], MaxTables)
CfgInputs == [table_row_limit : LimitChoices, max_workers : WorkerChoices, split_threshold : {0},
              progress_callback : NoCallback]

\* the state in which render_html reaches the thread pool (line 1191)
InitRun ==
  /\ cancel = FALSE
  /\ task = [i \in 1..Len(tables) |-> NewTask]
  /\ fragTmp = [i \in 1..Len(tables) |-> NoFile]
  /\ fragFile = [i \in 1..Len(tables) |-> NoFile]
  /\ opc = "collect"
  /\ collected = {}
  /\ finished_tables = 0
  /\ progress = <<>>
  /\ fragments_map = <<>>
  /\ fragOrder = <<>>
  /\ total_rows = 0
  /\ warnings = <<>>
  /\ need_fallback = FALSE
  /\ toc_items = <<>>
  /\ body_parts = <<>>
  /\ wpos = 0
  /\ outTmp = NoDoc
  /\ outFile = OldDoc
  /\ outOld = outFile
  /\ result = NoResult
  /\ written = {}

\* no table has been handed to _derive_titles
NoTitles ==
  /\ dfs = <<>>
  /\ titles = <<>>
  /\ contents = <<>>
  /\ metas = <<>>

\* no second invocation shares the output directory
NoRuns ==
  /\ clock = 0
  /\ runs = <<>>
  /\ disk = [dirs |-> {}, files |-> {}]

\* ... with the fragment directory created (lines 1178-1179)
InitRender ==
  /\ InitRun
  /\ NoTitles
  /\ NoRuns
  /\ tmp_frag_dir = FragsDir
  /\ dirs = {OutDir, FragsDir}

\* Spec: up to MaxTables tables of at most one row
Init ==
  /\ tables \in TableInputs
  /\ cfg \in CfgInputs
  /\ renderer \in [nl : NlChoices, fails : {{}}]
  /\ InitRender
  /\ faultsLeft = MaxFaults
  /\ stack = <<>>

\* SpecFrag: one table of up to MaxRows rows, every row limit up to MaxRows
InitFrag ==
  /\ tables \in {<<[n |-> k, cols |-> 1]>> : k \in 0..MaxRows}
  /\ cfg \in [table_row_limit : 0..MaxRows, max_workers : {4}, split_threshold : {0},
              progress_callback : NoCallback]
  /\ renderer \in [nl : NlChoices, fails : {{}}]
  /\ InitRender
  /\ faultsLeft = MaxFaults
  /\ stack = <<>>

\* RenderConfig.max_workers values tried in SpecPool
PoolChoices == {-1, 0, 1, 2}

\* SpecPool: up to MaxTables tables of one row, pool sizes below and above
\* the table count
InitPool ==
  /\ tables \in {[k \in 1..m |-> [n |-> 1, cols |-> 1]] : m \in 0..MaxTables}
  /\ cfg \in [table_row_limit : {0}, max_workers : PoolChoices, split_threshold : {0},
              progress_callback : NoCallback]
  /\ renderer = [nl |-> 0, fails |-> {}]
  /\ InitRender
  /\ faultsLeft = MaxFaults
  /\ stack = <<>>

\* SpecProgress: up to MaxTables tables of one row, rendered with no progress
\* callback, with one that returns and with one that raises
InitProgress ==
  /\ tables \in {[k \in 1..m |-> [n |-> 1, cols |-> 1]] : m \in 0..MaxTables}
  /\ cfg \in [table_row_limit : {0}, max_workers : WorkerChoices, split_threshold : {0},
              progress_callback : CallbackChoices]
  /\ renderer = [nl |-> 0, fails |-> {}]
  /\ InitRender
  /\ faultsLeft = MaxFaults
  /\ stack = <<>>

\* the cells <<table, row, column>> of the tables tabs
CellsOf(tabs) ==
  UNION {{<<i, r, c>> : r \in 1..tabs[i].n, c \in 0..(tabs[i].cols - 1)} : i \in DOMAIN tabs}

\* SpecCells: a table of up to MaxCols columns, alone or after a table without
\* rows, and a renderer that raises on some of its cells
InitCells ==
  /\ \E t \in [n : CellRowChoices, cols : 0..MaxCols] :
       tables \in {<<t>>, <<[n |-> 0, cols |-> 1], t>>}
  /\ cfg \in [table_row_limit : {0}, max_workers : {4}, split_threshold : {0},
              progress_callback : NoCallback]
  /\ renderer \in [nl : {0}, fails : SUBSET CellsOf(tables)]
  /\ InitRender
  /\ faultsLeft = MaxFaults
  /\ stack = <<>>

\* SpecDir: the fragment directory was created, or mkdir raised and the
\* fragments go to out_dir itself (lines 1180-1181)
InitDir ==
  /\ tables \in TableInputs
  /\ cfg \in [table_row_limit : {0}, max_workers : WorkerChoices, split_threshold : {0},
              progress_callback : NoCallback]
  /\ renderer \in [nl : {1}, fails : {{}}]
  /\ InitRun
  /\ NoTitles
  /\ NoRuns
  /\ tmp_frag_dir \in {FragsDir, OutDir}
  /\ dirs = {OutDir, tmp_frag_dir}
  /\ faultsLeft = MaxFaults
  /\ stack = <<>>

Next ==
  \/ \E i \in Idx : TaskStart(i)
  \/ \E i \in Idx : TaskCheck(i)
  \/ \E i \in Idx : TaskWriteRow(i)
  \/ \E i \in Idx : TaskFinish(i)
  \/ SetCancel
  \/ \E i \in Idx : Collect(i)
  \/ Interrupt
  \/ Decide
  \/ Assemble
  \/ FinalOpen
  \/ FinalWriteBody
  \/ FinalWriteTail
  \/ FinalReplace
  \/ FinalWriteFails
  \/ Cleanup

Spec == Init /\ [][Next]_vars
SpecFrag == InitFrag /\ [][Next]_vars
SpecPool == InitPool /\ [][Next]_vars
SpecCells == InitCells /\ [][Next]_vars
SpecProgress == InitProgress /\ [][Next]_vars
SpecDir == InitDir /\ [][Next]_vars

\* ---------------------------------------------------------- split path
\* One call of render_html on the split path (lines 1123-1174).  A frame holds
\* tables_list as the sequence of the tables' row counts, the output name as
\* the sequence of part numbers leading to it, and the locals of the loop;
\* groups records the table positions handed to each recursive call, warns is
\* the warnings list of the call, which its result carries.
NewFrame(tabs, out) ==
  [tabs |-> tabs, out |-> out, pc |-> "entry", split |-> FALSE, failed |-> FALSE,
   pos |-> 1, cur |-> <<>>, cur_rows |-> 0, part_no |-> 1, parts |-> <<>>, groups |-> <<>>,
   warns |-> <<>>]

Top == stack[Len(stack)]
SetTop(f) == [stack EXCEPT ![Len(stack)] = f]

\* lines 1124 and 1136: "if split_threshold" and "if total_rows > split_threshold"
TakesSplitPath(T, total) == T # 0 /\ total > T

\* mutant: the overflow is tested on the group alone, after the table was added
CloseBeforeLate(cur_rows, rc, T, cur) == cur_rows > T /\ cur # <<>>
\* mutant: a group is closed as soon as it would reach the threshold
CloseBeforeAtThreshold(cur_rows, rc, T, cur) == cur_rows + rc >= T /\ cur # <<>>
\* line 1142: "if cur_rows + rc > split_threshold and cur_tables"
CloseBefore(cur_rows, rc, T, cur) == cur_rows + rc > T /\ cur # <<>>

\* lines 1143 and 1155: {stem}_part{part_no}{suffix}
PartName(out, part_no) == Append(out, part_no)

\* mutant: the call is handed the group without its last table
TablesAtWithoutLast(tabs, cur) == [k \in 1..(Len(cur) - 1) |-> tabs[cur[k]]]
\* the row counts of the tables at the positions in cur (cur_tables)
TablesAt(tabs, cur) == [k \in DOMAIN cur |-> tabs[cur[k]]]

\* line 1174: the warning recorded when the split processing raises
SplitFailedWarning == Warn("warn", "split_threshold processing failed", 0)

\* the data rows the fragment task writes for a table of n rows under row
\* limit R when nothing cuts it short (lines 567-574)
LimitedRows(n, R) == IF LimitExceeded(n, R) THEN R ELSE n
\* the warnings a render of the tables tabs collects from its fragment tasks
RECURSIVE LeafWarnings(_, _, _)
LeafWarnings(tabs, R, k) ==
  IF k > Len(tabs) THEN <<>>
  ELSE (IF LimitExceeded(tabs[k], R) THEN <<RowLimitWarning(k)>> ELSE <<>>)
       \o LeafWarnings(tabs, R, k + 1)

\* the outcome of rendering one document: kind is "doc" for a document that
\* was written, "index" for an index document, "failed" for a document whose
\* final write raised; warns are the warnings of the result of that render
Outcome(kind, name, tabs, rows, links, warns) ==
  [kind |-> kind, name |-> name, tabs |-> tabs, rows |-> rows, links |-> links, warns |-> warns]

\* render_html is entered: the rows are counted and the path is chosen
SplitEnter ==
  /\ stack # <<>>
  /\ Top.pc = "entry"
  /\ stack' = SetTop(IF TakesSplitPath(cfg.split_threshold, SumSeq(Top.tabs))
                     THEN [Top EXCEPT !.pc = "loop", !.split = TRUE]
                     ELSE [Top EXCEPT !.pc = "render"])
  /\ UNCHANGED <<mvars, xvars, written>>

\* the recursive call of lines 1144 and 1156; at the interpreter's recursion
\* limit it raises RecursionError, which the except of line 1173 catches: the
\* caller then renders its own tables into one document
CallRender(waitPc) ==
  IF Len(stack) < MaxDepth
  THEN stack' = Append(SetTop([Top EXCEPT !.pc = waitPc]),
                       NewFrame(TablesAt(Top.tabs, Top.cur), PartName(Top.out, Top.part_no)))
  ELSE stack' = SetTop([Top EXCEPT !.pc = "render", !.failed = TRUE,
                                   !.warns = Append(@, SplitFailedWarning)])

\* one iteration of "for df, rc in zip(tables_list, row_counts)" up to the call
SplitLoopStep ==
  /\ stack # <<>>
  /\ Top.pc = "loop"
  /\ Top.pos <= Len(Top.tabs)
  /\ LET rc == Top.tabs[Top.pos] IN
     IF CloseBefore(Top.cur_rows, rc, cfg.split_threshold, Top.cur)
     THEN CallRender("wait_loop")
     ELSE stack' = SetTop([Top EXCEPT !.cur = Append(@, Top.pos),
                                      !.cur_rows = @ + rc,
                                      !.pos = @ + 1])
  /\ UNCHANGED <<mvars, xvars, written>>

\* the call of line 1144 returned: lines 1148-1153
SplitAfterCall ==
  /\ Len(stack) >= 2
  /\ Top.pc = "ret"
  /\ stack[Len(stack) - 1].pc = "wait_loop"
  /\ LET caller == stack[Len(stack) - 1]
         rc == caller.tabs[caller.pos] IN
     stack' = Append(SubSeq(stack, 1, Len(stack) - 2),
                     [caller EXCEPT !.pc = "loop",
                                    !.parts = Append(@, Top.out),
                                    !.groups = Append(@, caller.cur),
                                    !.part_no = @ + 1,
                                    !.cur = <<caller.pos>>,
                                    !.cur_rows = rc,
                                    !.pos = @ + 1])
  /\ UNCHANGED <<mvars, xvars, written>>

\* after the loop: "if cur_tables" and the call of line 1156
SplitLastGroup ==
  /\ stack # <<>>
  /\ Top.pc = "loop"
  /\ Top.pos > Len(Top.tabs)
  /\ IF Top.cur # <<>>
     THEN CallRender("wait_last")
     ELSE stack' = SetTop([Top EXCEPT !.pc = "index"])
  /\ UNCHANGED <<mvars, xvars, written>>

\* the call of line 1156 returned: line 1160
SplitAfterLast ==
  /\ Len(stack) >= 2
  /\ Top.pc = "ret"
  /\ stack[Len(stack) - 1].pc = "wait_last"
  /\ LET caller == stack[Len(stack) - 1] IN
     stack' = Append(SubSeq(stack, 1, Len(stack) - 2),
                     [caller EXCEPT !.pc = "index",
                                    !.parts = Append(@, Top.out),
                                    !.groups = Append(@, caller.cur)])
  /\ UNCHANGED <<mvars, xvars, written>>

SplitFrame ==
  UNCHANGED <<tables, cfg, renderer, xvars, tmp_frag_dir, dirs, cancel, task, fragTmp, fragFile, opc, collected,
           finished_tables, progress,
              fragments_map, fragOrder, total_rows, warnings, need_fallback, toc_items,
              body_parts, wpos, outTmp, outFile, outOld, result>>

\* lines 1161-1172: the index document is written and the call returns; when
\* both write attempts raise the failure is passed over (lines 1168-1171)
SplitWriteIndex ==
  /\ stack # <<>>
  /\ Top.pc = "index"
  /\ \/ /\ NoFault
        /\ written' = written \cup {Outcome("index", Top.out, <<>>, <<>>, Top.parts, Top.warns)}
     \/ /\ Fault
        /\ UNCHANGED written
  /\ stack' = SetTop([Top EXCEPT !.pc = "ret"])
  /\ SplitFrame

\* lines 1176-1377: the call renders all its tables into one document and
\* returns the result of line 1363; when the final write raises it returns the
\* result of line 1351 and the document is not written
RenderLeaf ==
  /\ stack # <<>>
  /\ Top.pc = "render"
  /\ LET R == cfg.table_row_limit
         rows == [k \in DOMAIN Top.tabs |-> LimitedRows(Top.tabs[k], R)]
         ws == Top.warns \o LeafWarnings(Top.tabs, R, 1) IN
     \/ /\ NoFault
        /\ written' = written \cup {Outcome("doc", Top.out, Top.tabs, rows, <<>>, ws)}
        /\ stack' = SetTop([Top EXCEPT !.pc = "ret", !.warns = ws])
     \/ /\ Fault
        /\ written' = written \cup
             {Outcome("failed", Top.out, Top.tabs, <<>>, <<>>, Append(ws, WriteFailedWarning))}
        /\ stack' = SetTop([Top EXCEPT !.pc = "ret", !.warns = Append(ws, WriteFailedWarning)])
  /\ SplitFrame

SplitInputs == SeqsUpTo(0..MaxSplitRows, MaxSplitTables)

\* SpecSplit: the grouping and the recursion, with no row limit and no failure
InitSplit ==
  /\ tables = <<>>
  /\ cfg \in [table_row_limit : {0}, max_workers : {4}, split_threshold : 0..MaxThreshold,
              progress_callback : NoCallback]
  /\ renderer = [nl |-> 0, fails |-> {}]
  /\ InitRender
  /\ faultsLeft = 0
  /\ \E tabs \in SplitInputs : stack = <<NewFrame(tabs, <<>>)>>

\* SpecParts: the split path on up to MaxTables tables of up to MaxRows rows,
\* with a row limit and with failing writes; RenderConfig takes any integer as
\* split_threshold, a negative one included
InitParts ==
  /\ tables = <<>>
  /\ cfg \in [table_row_limit : LimitChoices, max_workers : {4}, split_threshold : -1..MaxRows,
              progress_callback : NoCallback]
  /\ renderer = [nl |-> 0, fails |-> {}]
  /\ InitRender
  /\ faultsLeft = MaxFaults
  /\ \E tabs \in SeqsUpTo(0..MaxRows, MaxTables) : stack = <<NewFrame(tabs, <<>>)>>

NextSplit ==
  \/ SplitEnter
  \/ SplitLoopStep
  \/ SplitAfterCall
  \/ SplitLastGroup
  \/ SplitAfterLast
  \/ SplitWriteIndex
  \/ RenderLeaf

SpecSplit == InitSplit /\ [][NextSplit]_vars
SpecParts == InitParts /\ [][NextSplit]_vars

\* ------------------------------------------------------ titles and ids
\* Text is a sequence of one-character strings; None is Python's None.
None == <<"<None>">>
Truthy(v) == v # None /\ v # <<>>
Rep(c, n) == [k \in 1..n |-> c]
LowerCase == <<"a", "b", "c", "d", "e", "f", "g", "h", "i", "j", "k", "l", "m",
               "n", "o", "p", "q", "r", "s", "t", "u", "v", "w", "x", "y", "z">>
UpperCase == <<"A", "B", "C", "D", "E", "F", "G", "H", "I", "J", "K", "L", "M",
               "N", "O", "P", "Q", "R", "S", "T", "U", "V", "W", "X", "Y", "Z">>
DigitChars == <<"0", "1", "2", "3", "4", "5", "6", "7", "8", "9">>
IsUpper(c) == \E k \in DOMAIN UpperCase : UpperCase[k] = c
IsLower(c) == \E k \in DOMAIN LowerCase : LowerCase[k] = c
IsDigit(c) == \E k \in DOMAIN DigitChars : DigitChars[k] = c
IsSpace(c) == c = " "
ToLower(c) == IF IsUpper(c) THEN LowerCase[CHOOSE k \in DOMAIN UpperCase : UpperCase[k] = c] ELSE c
\* str(n) for 0 <= n <= 99
Digits(n) == IF n < 10 THEN <<DigitChars[n + 1]>>
             ELSE <<DigitChars[(n \div 10) + 1], DigitChars[(n % 10) + 1]>>

\* the character classes of the regular expressions: \s, - and
\* [^a-zA-Z0-9\-_]
IsIdChar(c) == IsLower(c) \/ IsUpper(c) \/ IsDigit(c) \/ c = "-" \/ c = "_"
InClass(c, class) ==
  CASE class = "space" -> IsSpace(c)
    [] class = "dash" -> c = "-"
    [] class = "unsafe" -> ~IsIdChar(c)
\* the positions of s that hold a character outside the class
Outside(s, class) == {k \in DOMAIN s : ~InClass(s[k], class)}
StripLeft(s, class) ==
  IF Outside(s, class) = {} THEN <<>>
  ELSE SubSeq(s, CHOOSE k \in Outside(s, class) : \A h \in Outside(s, class) : k <= h, Len(s))
StripRight(s, class) ==
  IF Outside(s, class) = {} THEN <<>>
  ELSE SubSeq(s, 1, CHOOSE k \in Outside(s, class) : \A h \in Outside(s, class) : k >= h)
\* str.strip()
Strip(s) == StripRight(StripLeft(s, "space"), "space")
\* str.lower()
Lower(s) == [k \in DOMAIN s |-> ToLower(s[k])]
\* re.sub(<class>+, by, s): every maximal run of characters of the class
\* becomes one 'by'
SubRuns(s, class, by) ==
  LET kept == SelectSeq([k \in DOMAIN s |-> k],
                        LAMBDA k : ~InClass(s[k], class) \/ k = 1 \/ ~InClass(s[k - 1], class))
  IN [j \in DOMAIN kept |-> IF InClass(s[kept[j]], class) THEN by ELSE s[kept[j]]]

\* lines 85-93 (the _sanitize_id in effect when .sanitize cannot be imported)
SanitizeId(x, idx) ==
  LET replaced == SubRuns(Lower(Strip(x)), "unsafe", "-")
      stripped == StripRight(StripLeft(SubRuns(replaced, "dash", "-"), "dash"), "dash")
  IN IF stripped = <<>> THEN <<"i", "d", "-">> \o idx ELSE stripped

\* line 475
MaxTitleLen == 120
KeptTitleLen == 117
DisplayTitle(title_text) ==
  IF Len(title_text) <= MaxTitleLen THEN title_text
  ELSE SubSeq(title_text, 1, KeptTitleLen) \o <<".", ".", ".">>

\* _prepare_table_stream (lines 415-436): the sample is the first rows of
\* the table, by their raw values
SampleSize == 100
SampleRows(df) ==
  [k \in 1..Min(Len(df.rows), SampleSize) |-> [c \in DOMAIN df.rows[k] |-> df.rows[k][c].raw]]

\* lines 443-449: df.title, else df.name
TitleFromDf(df) ==
  IF Truthy(df.title) THEN Strip(df.title)
  ELSE IF Truthy(df.name) THEN Strip(df.name)
  ELSE None
\* lines 456-459: the first value of the row that is neither None nor ""
RECURSIVE FirstNonEmpty(_)
FirstNonEmpty(row) ==
  IF row = <<>> THEN None
  ELSE IF Head(row) # None /\ Head(row) # <<>> THEN Head(row)
  ELSE FirstNonEmpty(Tail(row))
\* lines 454-459: the first value of the first sampled row; the search for
\* a later value runs only when that value is None
Candidate(first) ==
  LET cand == IF Len(first) > 0 THEN first[1] ELSE None
  IN IF cand = None THEN FirstNonEmpty(first) ELSE cand
\* "Table {idx}" (line 472)
TableNTitle(idx) == <<"T", "a", "b", "l", "e", " ">> \o Digits(idx)
\* lines 442-474
TitleText(idx, cols, sample_rows, df) ==
  LET t1 == TitleFromDf(df)
      t2 == IF ~Truthy(t1) /\ sample_rows # <<>> /\ Candidate(sample_rows[1]) # None
            THEN Strip(Candidate(sample_rows[1])) ELSE t1
      t3 == IF ~Truthy(t2) /\ cols # <<>> THEN Strip(cols[1]) ELSE t2
      t4 == IF ~Truthy(t3) THEN TableNTitle(idx) ELSE t3
  IN Strip(SubRuns(t4, "space", " "))
\* _derive_titles (lines 438-481); title_html is the display title rendered
\* by the markdown renderer
DeriveTitlesOf(idx, cols, sample_rows, df) ==
  LET display == DisplayTitle(TitleText(idx, cols, sample_rows, df))
  IN [title_text |-> TitleText(idx, cols, sample_rows, df),
      display_title |-> display,
      title_id |-> SanitizeId(display, Digits(idx))]

\* line 505: the fragment task of table i derives its titles
DeriveTitles(i) ==
  /\ i \in DOMAIN dfs
  /\ i \notin DOMAIN titles
  /\ titles' = [k \in DOMAIN titles \cup {i} |->
                  IF k = i THEN DeriveTitlesOf(i, dfs[i].cols, SampleRows(dfs[i]), dfs[i])
                  ELSE titles[k]]
  /\ UNCHANGED <<mvars, svars, rvars, dfs, contents, metas>>

\* Markup is a sequence of tokens: a run of text, or a tag with its id
\* attribute.
Text(str) == [t |-> "text", str |-> str, id |-> <<>>]
Tag(name) == [t |-> name, str |-> <<>>, id |-> <<>>]
TagId(name, id) == [t |-> name, str |-> <<>>, id |-> id]
RECURSIVE PlainOf(_)
\* re.sub(r'<[^>]+>', '', html): the text outside the tags
PlainOf(html) ==
  IF html = <<>> THEN <<>>
  ELSE (IF Head(html).t = "text" THEN Head(html).str ELSE <<>>) \o PlainOf(Tail(html))

\* the cell as the row holds it: its raw value, and what the renderer and
\* the sanitiser make of it (lines 584-608)
PlainCell(str) == [raw |-> str, html |-> <<Text(str)>>]
NoneCell == [raw |-> None, html |-> <<>>]
EmptyCell == [raw |-> <<>>, html |-> <<>>]

\* line 623: re.match(r'^\s*\d+[\.\)]', plain)
IsEnumerated(plain) ==
  LET rest == StripLeft(plain, "space")
      digits == CHOOSE n \in 0..Len(rest) :
                  /\ \A k \in 1..n : IsDigit(rest[k])
                  /\ n < Len(rest) => ~IsDigit(rest[n + 1])
  IN digits > 0 /\ digits < Len(rest) /\ rest[digits + 1] \in {".", ")"}
\* len(plain.split())
WordCount(plain) ==
  Cardinality({k \in DOMAIN plain : ~IsSpace(plain[k]) /\ (k = 1 \/ IsSpace(plain[k - 1]))})
\* lines 622-626
MaxHeadingLen == 120
MaxHeadingWords == 8
MinHeadingLen == 2
IsHeading(plain) ==
  \/ IsEnumerated(plain)
  \/ /\ Len(plain) < MaxHeadingLen
     /\ \A k \in DOMAIN plain : ~IsLower(plain[k])
     /\ WordCount(plain) <= MaxHeadingWords
     /\ Len(plain) > MinHeadingLen

\* line 499: _sanitize_id(f"Table{idx}", idx)
FragTableId(idx) == SanitizeId(<<"T", "a", "b", "l", "e">> \o Digits(idx), Digits(idx))
\* line 628
SectionId(idx, r_idx, plain) ==
  SanitizeId(FragTableId(idx) \o <<"-", "s", "e", "c", "t", "i", "o", "n", "-">> \o plain,
             Digits(idx) \o <<"-">> \o Digits(r_idx))
\* lines 617-631: one cell of row r_idx
CellMarkup(idx, r_idx, col_i, cell) ==
  LET plain == Strip(PlainOf(cell.html))
      first_col_raw == IF cell.raw = None THEN <<>> ELSE cell.raw
      inner == IF col_i = 0 /\ first_col_raw # <<>> /\ IsHeading(plain)
               THEN <<TagId("<div class=section-heading>", SectionId(idx, r_idx, plain))>>
                      \o cell.html \o <<Tag("</div>")>>
               ELSE cell.html
  IN <<Tag("<td>")>> \o inner \o <<Tag("</td>")>>
RECURSIVE RowMarkup(_, _, _, _)
RowMarkup(idx, r_idx, row, col_i) ==
  IF col_i >= Len(row) THEN <<>>
  ELSE CellMarkup(idx, r_idx, col_i, row[col_i + 1]) \o RowMarkup(idx, r_idx, row, col_i + 1)
RECURSIVE RowsMarkup(_, _, _)
RowsMarkup(idx, rows, r_idx) ==
  IF r_idx > Len(rows) THEN <<>>
  ELSE <<Tag("<tr>")>> \o RowMarkup(idx, r_idx, rows[r_idx], 0) \o <<Tag("</tr>")>>
         \o RowsMarkup(idx, rows, r_idx + 1)
\* the writer of lines 520-639: wrapper, title heading, controls, table,
\* footer
FragmentMarkup(idx, t, df) ==
  <<TagId("<div class=table-wrapper>", FragTableId(idx)),
    TagId("<h3>", t.title_id), Text(t.display_title), Tag("</h3>"),
    Tag("<div class=header-controls>"), Tag("</div>"),
    Tag("<div class=table-container>"), Tag("<table>"), Tag("<tbody>")>>
  \o RowsMarkup(idx, df.rows, 1)
  \o <<Tag("</tbody>"), Tag("</table>"), Tag("</div>"),
       Tag("<div class=row-count>"), Tag("</div>"),
       Tag("<div class=table-summary>"), Text(<<"R", "o", "w", "s">>), Tag("</div>"),
       Tag("</div>")>>

\* lines 520-648 and 1209-1215: the task writes the fragment and the
\* orchestrator reads it back; the content is empty when the write or the
\* read raised
WriteFragment(i) ==
  /\ i \in DOMAIN titles
  /\ i \notin DOMAIN contents
  /\ \E content \in {FragmentMarkup(i, titles[i], dfs[i]), <<>>} :
       contents' = [k \in DOMAIN contents \cup {i} |-> IF k = i THEN content ELSE contents[k]]
  /\ UNCHANGED <<mvars, svars, rvars, dfs, titles, metas>>

\* the capture of id=["']([^"']+)["'] in an h3 tag: the characters before
\* the first quote
UpToQuote(id) ==
  LET quotes == {k \in DOMAIN id : id[k] \in {"\"", "'"}} IN
  IF quotes = {} THEN id
  ELSE SubSeq(id, 1, (CHOOSE k \in quotes : \A h \in quotes : k <= h) - 1)
\* the capture of id="([^"]+)"> in a section-heading div: the whole id, if
\* it has no double quote
SectionCapture(id) == IF \E k \in DOMAIN id : id[k] = "\"" THEN <<>> ELSE id
\* positions from k on that hold a token satisfying ...
FirstAt(content, k, names) ==
  LET hits == {j \in k..Len(content) : content[j].t \in names} IN
  IF hits = {} THEN 0 ELSE CHOOSE j \in hits : \A h \in hits : j <= h
\* line 1220: the first h3 with an id, up to its closing tag
H3Match(content) ==
  LET opens == {k \in DOMAIN content :
                  /\ content[k].t = "<h3>"
                  /\ UpToQuote(content[k].id) # <<>>
                  /\ FirstAt(content, k + 1, {"</h3>"}) # 0} IN
  IF opens = {} THEN 0 ELSE CHOOSE k \in opens : \A h \in opens : k <= h
\* line 1226: re.finditer over the section-heading divs, each match running
\* to the first </div> after its opening tag
RECURSIVE SectionMatches(_, _)
SectionMatches(content, from) ==
  LET opens == {k \in from..Len(content) :
                  /\ content[k].t = "<div class=section-heading>"
                  /\ SectionCapture(content[k].id) # <<>>
                  /\ FirstAt(content, k + 1, {"</div>"}) # 0} IN
  IF opens = {} THEN <<>>
  ELSE LET k == CHOOSE o \in opens : \A h \in opens : o <= h
           end == FirstAt(content, k + 1, {"</div>"})
       IN <<[id |-> SectionCapture(content[k].id),
             text |-> Strip(PlainOf(SubSeq(content, k + 1, end - 1)))]>>
            \o SectionMatches(content, end + 1)
\* "Table{i}" and "Table {i}" (lines 1232-1235)
DefaultMetaId(i) == <<"T", "a", "b", "l", "e">> \o Digits(i)
\* lines 1216-1236
ExtractMetaOf(content, i) ==
  LET m == IF content = <<>> THEN 0 ELSE H3Match(content)
      title_id == IF m = 0 THEN <<>> ELSE UpToQuote(content[m].id)
      title_text == IF m = 0 THEN <<>>
                    ELSE Strip(PlainOf(SubSeq(content, m + 1, FirstAt(content, m + 1, {"</h3>"}) - 1)))
  IN [title_id |-> IF title_id = <<>> THEN DefaultMetaId(i) ELSE title_id,
      title_text |-> IF title_text = <<>> THEN TableNTitle(i) ELSE title_text,
      sections |-> IF content = <<>> THEN <<>> ELSE SectionMatches(content, 1)]
ExtractMeta(i) ==
  /\ i \in DOMAIN contents
  /\ i \notin DOMAIN metas
  /\ metas' = [k \in DOMAIN metas \cup {i} |->
                 IF k = i THEN ExtractMetaOf(contents[i], i) ELSE metas[k]]
  /\ UNCHANGED <<mvars, svars, rvars, dfs, titles, contents>>

\* render_html is not running: no table list, no task, no document
InitNoRender ==
  /\ tables = <<>>
  /\ cfg \in [table_row_limit : {0}, max_workers : {4}, split_threshold : {0},
              progress_callback : NoCallback]
  /\ renderer \in [nl : {0}, fails : {{}}]
  /\ InitRun
  /\ tmp_frag_dir = FragsDir
  /\ dirs = {OutDir, FragsDir}
  /\ faultsLeft = 0
  /\ stack = <<>>

Q == "\""
\* the titles and names a table may carry
TitleChoices == {None, <<>>, <<"Q", " ", " ", "a">>, Rep("a", MaxTitleLen), Rep("a", MaxTitleLen + 1)}
NameChoices == {None, <<"n">>}
\* the first rows a table may have: none, an empty row, a row whose first
\* value is None, is the empty string, or is a text
FirstRowChoices ==
  {<<>>, << <<>> >>,
   << <<NoneCell, PlainCell(<<"r">>)>> >>,
   << <<EmptyCell, PlainCell(<<"r">>)>> >>,
   << <<PlainCell(<<"x">>)>> >>,
   << <<NoneCell, EmptyCell, PlainCell(<<"r">>)>> >>}
ColsChoices == {<<>>, <<<<"C">>>>}
\* titles that differ, that are equal, and that differ only in characters
\* outside the id alphabet
SharedTitleChoices == {<<"a">>, <<"a", " ", "b">>, <<"a", "-", "b">>}

\* SpecTitles: one table with every combination of title, name, first row
\* and columns, or 2..MaxTitleTables tables that have a title
InitTitles ==
  /\ InitNoRender
  /\ \/ dfs \in {<<df>> : df \in [title : TitleChoices, name : NameChoices,
                                    rows : FirstRowChoices, cols : ColsChoices]}
     \/ dfs \in UNION {[1..n -> [title : SharedTitleChoices, name : {None},
                                  rows : {<<>>}, cols : {<<<<"C">>>>}]] : n \in 2..MaxTitleTables}
  /\ titles = <<>>
  /\ contents = <<>>
  /\ metas = <<>>
  /\ NoRuns

\* the rows of a table of two columns: an ordinary row, a row whose first
\* cell is an enumerated heading, an upper-case heading that holds a quote,
\* a heading rendered inside a div of its own, and an ordinary row whose
\* second cell holds the markup of a section heading
HeadingDiv(id, str) == <<TagId("<div class=section-heading>", id), Text(str), Tag("</div>")>>
MetaRowChoices ==
  {<<PlainCell(<<"a", "b">>), PlainCell(<<"c">>)>>,
   <<PlainCell(<<"1", ".", "a">>), PlainCell(<<"c">>)>>,
   <<PlainCell(<<"A", Q, "B">>), PlainCell(<<"c">>)>>,
   <<[raw |-> <<"A", "B", "C">>, html |-> <<Tag("<div>"), Text(<<"A", "B", "C">>), Tag("</div>")>>],
     PlainCell(<<"c">>)>>,
   <<PlainCell(<<"a", "b">>), [raw |-> <<"x">>, html |-> HeadingDiv(<<"x">>, <<"y">>)]>>}

\* SpecMeta: one table of up to MaxMetaRows rows
InitMeta ==
  /\ InitNoRender
  /\ dfs \in {<<df>> : df \in [title : {None, <<"Q", Q, "a">>}, name : {None},
                                rows : SeqsUpTo(MetaRowChoices, MaxMetaRows),
                                cols : {<<<<"C">>, <<"D">>>>}]}
  /\ titles = <<>>
  /\ contents = <<>>
  /\ metas = <<>>
  /\ NoRuns

NextTitles ==
  \/ \E i \in DOMAIN dfs : DeriveTitles(i)
  \/ \E i \in DOMAIN dfs : WriteFragment(i)
  \/ \E i \in DOMAIN dfs : ExtractMeta(i)

SpecTitles == InitTitles /\ [][NextTitles]_vars
SpecMeta == InitMeta /\ [][NextTitles]_vars

\* --------------------------------- invocations sharing an output directory
\* A directory is named by its path below out_dir: <<>> is out_dir itself,
\* <<ms>> is out_dir/.frags_<ms>.
RunOutDir == <<>>
\* line 1178
FragDirName(ms) == <<ms>>
RunIds == {1, 2}
NewRun(n) == [pc |-> "start", dir |-> RunOutDir, n |-> n, next |-> 1]
\* frag_{i}.html in directory d, with the invocation that wrote it last
RunFile(d, i, r) == [dir |-> d, idx |-> i, owner |-> r]
\* shutil.rmtree(d)
RmTree(dk, d) == [dirs |-> dk.dirs \ {d}, files |-> {f \in dk.files : f.dir # d}]
\* _default_write_atomic on d/frag_{i}.html: the file of that name is replaced
WriteFile(dk, d, i, r) ==
  [dk EXCEPT !.files = {f \in @ : ~(f.dir = d /\ f.idx = i)} \cup {RunFile(d, i, r)}]
RunsFrame == UNCHANGED <<mvars, svars, tvars>>

\* the clock advances by a millisecond
Tick ==
  /\ clock < MaxClock
  /\ clock' = clock + 1
  /\ UNCHANGED <<runs, disk>>
  /\ RunsFrame

\* lines 1177-1181: the directory is named after the clock and created, an
\* existing directory of that name being accepted (exist_ok=True); when
\* mkdir raises the fragments go to out_dir
RunMakeDir(r) ==
  /\ runs[r].pc = "start"
  /\ \/ /\ runs' = [runs EXCEPT ![r].pc = "render", ![r].dir = FragDirName(clock)]
        /\ disk' = [disk EXCEPT !.dirs = @ \cup {FragDirName(clock)}]
     \/ /\ runs' = [runs EXCEPT ![r].pc = "render", ![r].dir = RunOutDir]
        /\ UNCHANGED disk
  /\ UNCHANGED clock
  /\ RunsFrame

\* lines 641-648: a fragment task of invocation r writes frag_{i}.html; the
\* write fails when the directory is gone
RunWriteFragment(r) ==
  /\ runs[r].pc = "render"
  /\ runs[r].next <= runs[r].n
  /\ disk' = IF runs[r].dir \in disk.dirs
             THEN WriteFile(disk, runs[r].dir, runs[r].next, r)
             ELSE disk
  /\ runs' = [runs EXCEPT ![r].next = @ + 1]
  /\ UNCHANGED clock
  /\ RunsFrame

\* lines 1206-1363: the fragments are collected and the document is written
RunAssemble(r) ==
  /\ runs[r].pc = "render"
  /\ runs[r].next > runs[r].n
  /\ runs' = [runs EXCEPT ![r].pc = "cleanup"]
  /\ UNCHANGED <<clock, disk>>
  /\ RunsFrame

\* lines 1370-1377
RunCleanup(r) ==
  /\ runs[r].pc = "cleanup"
  /\ disk' = IF runs[r].dir \in disk.dirs /\ runs[r].dir # RunOutDir
             THEN RmTree(disk, runs[r].dir)
             ELSE disk
  /\ runs' = [runs EXCEPT ![r].pc = "returned"]
  /\ UNCHANGED clock
  /\ RunsFrame

\* SpecRuns: two invocations of 1..MaxRunTables tables on one output
\* directory, started at any time
InitRuns ==
  /\ InitNoRender
  /\ NoTitles
  /\ clock = 1
  /\ runs \in [RunIds -> {NewRun(n) : n \in 1..MaxRunTables}]
  /\ disk = [dirs |-> {RunOutDir}, files |-> {}]

NextRuns ==
  \/ Tick
  \/ \E r \in RunIds : RunMakeDir(r)
  \/ \E r \in RunIds : RunWriteFragment(r)
  \/ \E r \in RunIds : RunAssemble(r)
  \/ \E r \in RunIds : RunCleanup(r)

SpecRuns == InitRuns /\ [][NextRuns]_vars

\* ------------------------------------------------------------- claims
BodyIdx(doc) == [k \in DOMAIN doc.body |-> doc.body[k].idx]
TocIdx(doc) == [k \in DOMAIN doc.toc |-> doc.toc[k].idx]
TocItemIdx == [k \in DOMAIN toc_items |-> toc_items[k].idx]
PartIdx == [k \in DOMAIN body_parts |-> body_parts[k].idx]
\* the new document, wherever it currently is (being written, or promoted)
NewDocs == {d \in {outTmp, outFile} : d.exists /\ ~d.old}
Raised == {i \in Idx : task[i].pc = "raised"}
HasWarning(ws, w) == \E k \in DOMAIN ws : ws[k] = w
CountWarnings(ws, w) == Cardinality({k \in DOMAIN ws : ws[k] = w})
\* the fragment directory still holds what the tasks left (it is removed by Cleanup)
FragDirLive == opc # "returned"
\* the data rows the task of table i wrote with f.write
RowsWritten(i) == IF fragFile[i].exists THEN fragFile[i].rows ELSE fragTmp[i].rows

\* C1: whatever the completion order, the toc entries and the body pieces of
\* the final document are in strictly ascending table index.
C1_AssemblyInIndexOrder ==
  /\ opc \notin {"collect", "assemble"} => IsAscending(TocItemIdx) /\ IsAscending(PartIdx)
  /\ \A d \in NewDocs : IsAscending(TocIdx(d)) /\ IsAscending(BodyIdx(d))
C1_Witness ==
  /\ opc = "returned"
  /\ ~need_fallback
  /\ fragOrder = <<2, 1>>
  /\ BodyIdx(outFile) = <<1, 2>>
  /\ TocIdx(outFile) = <<1, 2>>

\* C2 as stated: when the task of table i raises, table i is in neither the
\* toc nor the body of the written document, and every other fragment is.
C2_FailedTableAlwaysLeftOut ==
  opc = "cleanup" =>
    \A i \in Raised :
      /\ \E k \in DOMAIN result.warnings :
           result.warnings[k].level = "error" /\ result.warnings[k].msg = "table render failed"
      /\ i \notin Range(TocIdx(outFile))
      /\ i \notin Range(BodyIdx(outFile))
      /\ \A j \in Idx \ Raised : fragFile[j].exists => j \in Range(BodyIdx(outFile))
\* C2 amended: the error warning is always recorded; when the document is
\* assembled from fragments table i is in neither toc nor body and every
\* fragment file of another table is in the body; when the fallback is taken
\* every table, table i included, has a toc entry and an inline body piece.
C2_FailedTableLeftOutUnlessFallback ==
  opc = "cleanup" =>
    \A i \in Raised :
      /\ \E k \in DOMAIN result.warnings :
           result.warnings[k].level = "error" /\ result.warnings[k].msg = "table render failed"
      /\ result.output = "out_path"
      /\ IF ~need_fallback
         THEN /\ i \notin Range(TocIdx(outFile))
              /\ i \notin Range(BodyIdx(outFile))
              /\ \A j \in Idx \ Raised :
                   /\ j \in Range(TocIdx(outFile))
                   /\ fragFile[j].exists =>
                        \E k \in DOMAIN outFile.body :
                          outFile.body[k].idx = j /\ outFile.body[k].rows = fragFile[j].rows
         ELSE /\ TocIdx(outFile) = [k \in Idx |-> k]
              /\ BodyIdx(outFile) = [k \in Idx |-> k]
C2_Witness ==
  /\ N = 2
  /\ opc = "cleanup"
  /\ task[1].pc = "raised"
  /\ ~need_fallback
  /\ TocIdx(outFile) = <<2>>
  /\ BodyIdx(outFile) = <<2>>

\* C3 as stated: the rows value of the result is the sum of the data rows
\* written per table, and the count a fragment task returns is the number of
\* data rows it wrote into its fragment.
C3_RowsIsRowsWritten ==
  opc = "cleanup" =>
    /\ result.rows = SumSeq([i \in Idx |-> Len(fragFile[i].rows)])
    /\ \A i \in Idx : task[i].pc = "done" => task[i].rcount = Len(fragFile[i].rows)

\* C4 as stated: the final document holds at most N tables and no data row
\* whose cancellation check saw the flag set.
C4_NoRowAfterCancel ==
  \A d \in NewDocs :
    /\ Len(d.body) <= N
    /\ \A k \in DOMAIN d.body :
         LET i == d.body[k].idx IN
         task[i].cancelAt # 0 => \A r \in Range(d.body[k].rows) : r < task[i].cancelAt

\* C5 as stated (SpecFrag): with table_row_limit = R > 0 a table of more
\* than R rows gets exactly R rows written and exactly one warn-level warning
\* carrying its index; a table of at most R rows gets all rows and no row-limit
\* warning; R = 0 means no limit.
WarnLevelCount(i) ==
  Cardinality({k \in DOMAIN task[i].warns :
                 task[i].warns[k].level = "warn" /\ task[i].warns[k].table = i})
LoopNotCutShort(i) ==
  /\ ~HasWarning(task[i].warns, CanceledWarning(i))
  /\ \A k \in DOMAIN task[i].warns : task[i].warns[k].level # "error"
C6_WriteFailureIsReported ==
  opc = "failed" =>
    /\ result.returned
    /\ result.output = "none"
    /\ \E k \in DOMAIN result.warnings :
         result.warnings[k].level = "error" /\ result.warnings[k].msg = "write_failed"
    /\ outFile = outOld
C6_Witness ==
  /\ opc = "failed"
  /\ outTmp.exists
  /\ Len(outTmp.body) > 0
  /\ ~outTmp.complete
  /\ outFile = OldDoc

\* C7: the destination of an atomic write is never partial.  A fragment file
\* is absent or complete; it is absent after a failed write and complete after
\* a successful one.  The final document is the previous version until it is
\* replaced by the complete new one, and still the previous version after a
\* failed write.
FragComplete(i) ==
  /\ fragFile[i].exists
  /\ fragFile[i].closed
  /\ fragFile[i].idx = i
  /\ fragFile[i].summary = task[i].r_idx
DocComplete(d) ==
  /\ d.exists
  /\ d.complete
  /\ ~d.old
  /\ d.toc = toc_items
  /\ Len(d.body) <= Len(body_parts)
C7_DestinationNeverPartial ==
  /\ FragDirLive =>
       \A i \in Idx :
         /\ fragFile[i] = NoFile \/ FragComplete(i)
         /\ task[i].pc # "done" => fragFile[i] = NoFile
         /\ task[i].pc = "done" =>
              IF HasWarning(task[i].warns, FragmentWriteWarning(i))
              THEN fragFile[i] = NoFile
              ELSE FragComplete(i)
  /\ outFile = outOld \/ DocComplete(outFile)
  /\ opc \in {"collect", "assemble", "open", "body", "tail", "replace", "failed"} => outFile = outOld
  /\ opc \in {"cleanup", "returned"} => DocComplete(outFile)
C7_Witness ==
  /\ N = 1
  /\ task[1].pc = "done"
  /\ HasWarning(task[1].warns, FragmentWriteWarning(1))
  /\ fragTmp[1].exists
  /\ fragTmp[1].rows = <<1>>
  /\ ~fragTmp[1].closed
  /\ fragFile[1] = NoFile

\* C8: the fallback is taken exactly when no task returned a fragment or no
\* fragment file holds a data row; taking it records a warn-level warning
\* explaining it and the body is made of inline pieces, otherwise the body is
\* made of the fragment files.
Produced == {i \in Idx : task[i].pc = "done"}
C8_FallbackIffNoUsableFragment ==
  opc \in {"assemble", "open", "body", "tail", "replace", "cleanup", "failed"} =>
    /\ need_fallback <=>
         (Produced = {} \/ \A i \in Produced : ~(fragFile[i].exists /\ Len(fragFile[i].rows) > 0))
    /\ need_fallback <=>
         HasWarning(warnings, NoFragmentsWarning) \/ HasWarning(warnings, NoRowsWarning)
    /\ opc # "assemble" =>
         IF need_fallback
         THEN /\ PartIdx = [k \in Idx |-> k]
              /\ \A k \in DOMAIN body_parts : body_parts[k].inline
         ELSE /\ Range(PartIdx) = Produced
              /\ \A k \in DOMAIN body_parts : ~body_parts[k].inline
    /\ \A d \in NewDocs :
         d.complete /\ ~need_fallback =>
           \A i \in Produced :
             fragFile[i].exists =>
               \E k \in DOMAIN d.body : d.body[k].idx = i /\ d.body[k].rows = fragFile[i].rows
C8_Witness ==
  /\ opc = "open"
  /\ need_fallback
  /\ DOMAIN fragments_map = {1, 2}
  /\ HasWarning(warnings, NoRowsWarning)
  /\ \A k \in DOMAIN body_parts : body_parts[k].inline


\* the call made by the caller of render_html has run the split path to its end
TopSplitDone == stack # <<>> /\ stack[1].split /\ stack[1].pc \in {"index", "ret"}
\* the rows of the tables of group g that precede its k-th table
RowsBefore(f, g, k) == SumSeq(TablesAt(f.tabs, SubSeq(g, 1, k - 1)))
\* the groups of frame f, one after the other
RECURSIVE Flatten(_)
Flatten(gs) == IF gs = <<>> THEN <<>> ELSE Head(gs) \o Flatten(Tail(gs))

\* C9: a part is never itself split further: the call made for a part never
\* takes the split path, and render_html never runs more than one level below
\* the caller's invocation.
C9_PartIsNeverSplit ==
  /\ Len(stack) <= 2
  /\ \A d \in 2..Len(stack) : ~stack[d].split

\* C10: when the total row count exceeds a threshold T > 0 the tables are
\* partitioned into non-empty contiguous groups in input order, every table in
\* exactly one group, and a group is closed before a table exactly when the
\* group is non-empty and adding the table would make its rows exceed T; row
\* counts 5, 5, 5 with T = 8 give the groups {1}, {2}, {3}.
C10_GreedyGrouping ==
  TopSplitDone =>
    LET f == stack[1]
        T == cfg.split_threshold IN
    /\ T > 0 /\ SumSeq(f.tabs) > T
    /\ \A j \in DOMAIN f.groups : f.groups[j] # <<>>
    /\ Flatten(f.groups) = [p \in 1..Len(f.tabs) |-> p]
    /\ \A j \in DOMAIN f.groups :
         /\ \A k \in 2..Len(f.groups[j]) :
              RowsBefore(f, f.groups[j], k) + f.tabs[f.groups[j][k]] <= T
         /\ j > 1 => SumSeq(TablesAt(f.tabs, f.groups[j - 1])) + f.tabs[f.groups[j][1]] > T
    /\ (f.tabs = <<5, 5, 5>> /\ T = 8) => f.groups = <<<<1>>, <<2>>, <<3>>>>
    /\ Len(f.parts) = Len(f.groups)

C10_Witness ==
  /\ TopSplitDone
  /\ stack[1].tabs = <<5, 5, 5>>
  /\ cfg.split_threshold = 8
  /\ stack[1].groups = <<<<1>>, <<2>>, <<3>>>>
  /\ stack[1].pc = "ret"

\* no failure was induced so far
NoFailure == faultsLeft = MaxFaults

\* the rows of the tables of group g of frame f
GroupRows(f, g) == SumSeq(TablesAt(f.tabs, g))
\* the groups a call on the split path has handed over or has open
GroupsOf(f) == Range(f.groups) \cup (IF f.cur = <<>> THEN {} ELSE {f.cur})
\* the documents written, and those that are parts
Docs == {x \in written : x.kind = "doc"}
Parts == {x \in Docs : x.name # <<>>}

\* C11 as stated: in split mode every group rendered into one part file has
\* at most split_threshold rows.
C11_GroupWithinThreshold ==
  /\ \A d \in DOMAIN stack :
       stack[d].split =>
         \A g \in Range(stack[d].groups) : GroupRows(stack[d], g) <= cfg.split_threshold
  /\ \A x \in Parts : SumSeq(x.tabs) <= cfg.split_threshold
\* C11 amended: every group has at most split_threshold rows, unless it is
\* made of one table whose row count alone exceeds the threshold.
C11_GroupWithinThresholdUnlessOneTable ==
  /\ \A d \in DOMAIN stack :
       stack[d].split =>
         \A g \in GroupsOf(stack[d]) :
           \/ GroupRows(stack[d], g) <= cfg.split_threshold
           \/ Len(g) = 1 /\ stack[d].tabs[g[1]] > cfg.split_threshold
  /\ \A x \in Parts :
       \/ SumSeq(x.tabs) <= cfg.split_threshold
       \/ Len(x.tabs) = 1 /\ x.tabs[1] > cfg.split_threshold
C11_Witness ==
  /\ TopSplitDone
  /\ stack[1].pc = "ret"
  /\ stack[1].tabs = <<5, 1, 1>>
  /\ cfg.split_threshold = 4
  /\ stack[1].groups = <<<<1>>, <<2, 3>>>>
  /\ \E x \in Parts : x.name = <<2>> /\ x.tabs = <<1, 1>>

\* C12 as stated: the index document links exactly the part files that were
\* written, in ascending part number 1..P, each named after the index's own
\* output name and its part number.
C12_IndexLinksWrittenParts ==
  \A x \in written :
    x.kind = "index" =>
      /\ x.links = [k \in 1..Len(x.links) |-> PartName(x.name, k)]
      /\ \A k \in DOMAIN x.links : \E y \in Docs : y.name = x.links[k]
      /\ \A y \in Docs :
           (Len(y.name) = Len(x.name) + 1 /\ SubSeq(y.name, 1, Len(x.name)) = x.name)
             => y.name \in Range(x.links)

RECURSIVE SumRows(_)
\* the data rows of a set of documents
SumRows(S) ==
  IF S = {} THEN 0
  ELSE LET x == CHOOSE y \in S : TRUE IN SumSeq(x.rows) + SumRows(S \ {x})
\* the rows the tables tabs get written under the row limit
RowsUnderLimit(tabs) == SumSeq([k \in DOMAIN tabs |-> LimitedRows(tabs[k], cfg.table_row_limit)])

Headings(doc) == {doc.body[k].head : k \in DOMAIN doc.body}

\* C14: for N tables rendered with no induced failure the written document
\* has exactly N toc entries, in input order, and the anchor of every entry is
\* the id of a title heading present in the body.
C14_TocEntriesResolve ==
  \A d \in NewDocs :
    d.complete /\ NoFailure =>
      /\ TocIdx(d) = [k \in Idx |-> k]
      /\ \A k \in DOMAIN d.toc : d.toc[k].anchor \in Headings(d)
      /\ \A k \in DOMAIN d.toc : d.toc[k].anchor = d.body[k].head
C14_Witness ==
  /\ N = 2
  /\ opc = "returned"
  /\ NoFailure
  /\ ~need_fallback
  /\ outFile.complete /\ ~outFile.old
  /\ outFile.toc = <<TocItem(1, TitleId(1)), TocItem(2, TitleId(2))>>
  /\ Headings(outFile) = {TitleId(1), TitleId(2)}

\* C15: when KeyboardInterrupt arrives during collection every task that
\* has not started is cancelled and never runs, the interruption leaves
\* render_html (nothing is returned) and the final document is not written;
\* the exception of a failed task does not leave render_html, it becomes an
\* error warning.
C15_InterruptPropagates ==
  /\ opc = "interrupted" =>
       /\ \A i \in Idx : task[i].pc # "queued"
       /\ \A i \in Idx :
            task[i].pc = "cancelled" =>
              fragTmp[i] = NoFile /\ fragFile[i] = NoFile /\ task[i].it = 0
       /\ result = InterruptRaised
       /\ outFile = outOld /\ outTmp = NoDoc
  /\ result.output = "KeyboardInterrupt" => opc = "interrupted"
  /\ \A i \in collected :
       task[i].pc = "raised" =>
         \E k \in DOMAIN warnings :
           warnings[k].level = "error" /\ warnings[k].msg = "table render failed"
C15_Witness ==
  /\ N = 2
  /\ opc = "interrupted"
  /\ task[1].pc = "done"
  /\ fragFile[1].exists
  /\ task[2].pc = "cancelled"
  /\ outFile = outOld

\* the error-level warnings of task i that carry its table index
ErrorWarningsOf(i) ==
  {k \in DOMAIN task[i].warns : task[i].warns[k].level = "error" /\ task[i].warns[k].table = i}
\* the row iteration of task i failed
IterationFailed(i) ==
  \E k \in DOMAIN task[i].warns : task[i].warns[k].msg = "row iteration failed"

\* C16 (SpecFrag): a table whose row streaming raises, on the first row or at
\* row k, still yields a finalised fragment holding exactly the rows written
\* before the failure and an error warning carrying the table's index; the
\* table has its toc entry when the document is assembled from fragments.
C16_FailedStreamStillYieldsFragment ==
  FragDirLive =>
    \A i \in Idx :
      (task[i].pc = "done" /\ IterationFailed(i)
         /\ ~ \E k \in DOMAIN task[i].warns : task[i].warns[k].msg = "fragment write failed") =>
        /\ fragFile[i].exists /\ fragFile[i].closed /\ fragFile[i].idx = i
        /\ fragFile[i].rows = [k \in 1..Len(fragFile[i].rows) |-> k]
        /\ Len(fragFile[i].rows) \in {task[i].it - 1, task[i].it}
        /\ Len(fragFile[i].rows) < tables[i].n
        /\ fragFile[i].summary = task[i].r_idx
        /\ Cardinality(ErrorWarningsOf(i)) = 1
        /\ (opc \in {"open", "body", "tail", "replace", "cleanup"} /\ ~need_fallback) =>
             i \in Range(TocItemIdx)
C16_Witness ==
  /\ N = 1
  /\ tables[1].n = 3
  /\ opc = "cleanup"
  /\ task[1].pc = "done"
  /\ IterationFailed(1)
  /\ fragFile[1].rows = <<1>>
  /\ fragFile[1].closed
  /\ TocIdx(outFile) = <<1>>

\* the parallel render step is over and the fragment directory is still there
AfterParallelStep == opc \in {"assemble", "open", "body", "tail", "replace", "cleanup", "failed"}

\* C17 as stated: after the parallel render step the keys of the fragment map
\* are exactly 1..N and entry i is the fragment of the i-th table.
C17_FragmentMapIsDense ==
  AfterParallelStep =>
    /\ DOMAIN fragments_map = Idx
    /\ \A i \in DOMAIN fragments_map :
         fragments_map[i].content.exists /\ fragments_map[i].content.idx = i
\* C17 amended: the keys are the indices of the tasks that returned, 1..N when
\* no task raised; entry i holds the content of frag_i, which renders the i-th
\* table, and is empty when that file could not be written.
C17_FragmentMapHoldsReturnedTasks ==
  AfterParallelStep =>
    /\ DOMAIN fragments_map = Produced
    /\ Raised = {} => DOMAIN fragments_map = Idx
    /\ \A i \in DOMAIN fragments_map :
         /\ fragFile[i].exists =>
              fragments_map[i].content = fragFile[i] /\ fragments_map[i].content.idx = i
         /\ ~fragFile[i].exists => ~fragments_map[i].content.exists
C17_Witness ==
  /\ N = 2
  /\ opc = "assemble"
  /\ fragOrder = <<2, 1>>
  /\ DOMAIN fragments_map = {1, 2}
  /\ fragments_map[1].content.idx = 1 /\ fragments_map[1].content.rows = <<1>>
  /\ fragments_map[2].content.idx = 2

\* the document a render of the input tables under the configuration gives
\* when nothing fails and no cancellation is requested
ExpectedRows(i) ==
  [k \in 1..(IF cfg.table_row_limit # 0 /\ tables[i].n > cfg.table_row_limit
             THEN cfg.table_row_limit ELSE tables[i].n) |-> k]
ExpectedFallback == \A i \in Idx : ExpectedRows(i) = <<>>
ExpectedDoc ==
  [exists |-> TRUE,
   toc |-> [i \in Idx |-> [idx |-> i, anchor |-> IF ExpectedFallback THEN <<"Table", i>>
                                                 ELSE <<"title", i>>]],
   body |-> [i \in Idx |-> [idx |-> i,
                            head |-> IF ExpectedFallback THEN <<"Table", i>> ELSE <<"title", i>>,
                            rows |-> IF ExpectedFallback THEN [k \in 1..tables[i].n |-> k]
                                     ELSE ExpectedRows(i)]],
   complete |-> TRUE, old |-> FALSE]

\* C18: the final document is determined by the tables and the configuration:
\* every run without failure and cancellation writes the same document,
\* whatever the scheduling and the completion order of the tasks.
C18_DocumentIsDeterministic ==
  (opc \in {"cleanup", "returned"} /\ NoFailure /\ ~cancel) => outFile = ExpectedDoc
C18_Witness ==
  /\ N = 2
  /\ tables[1].n = 1 /\ tables[2].n = 1
  /\ opc = "returned"
  /\ NoFailure /\ ~cancel
  /\ fragOrder = <<2, 1>>
  /\ outFile = ExpectedDoc
  /\ BodyIdx(outFile) = <<1, 2>>

\* C19 as stated (split mode): every warning recorded by a render, the
\* per-part renders included, is in the warnings of the result returned to the
\* caller of render_html.
C19_WarningsReachCaller ==
  (stack # <<>> /\ stack[1].pc = "ret") =>
    \A x \in written : Range(x.warns) \subseteq Range(stack[1].warns)


\* C20 (SpecPool): the pool size is max(1, min(table_count, max_workers)): at
\* least 1 for every input, at most the table count and the configured maximum
\* when those are at least 1, and never are more tasks running than the pool
\* size.
C20_PoolSizeBounds ==
  /\ WorkerCount >= 1
  /\ N >= 1 => WorkerCount <= N
  /\ cfg.max_workers >= 1 => WorkerCount <= cfg.max_workers
  /\ WorkerCount = (IF N <= cfg.max_workers
                    THEN (IF N >= 1 THEN N ELSE 1)
                    ELSE (IF cfg.max_workers >= 1 THEN cfg.max_workers ELSE 1))
  /\ Cardinality({i \in Idx : Running(i)}) <= WorkerCount
C20_Witness ==
  /\ N = 2
  /\ cfg.max_workers = 2
  /\ WorkerCount = 2
  /\ Running(1) /\ Running(2)

\* C21 (SpecFrag): the data rows in a fragment, while it is written and once
\* it is promoted, are a prefix of the table's rows in streamed order: no row
\* is reordered, duplicated or skipped before the point where streaming stopped.
C21_RowsArePrefixOfStream ==
  FragDirLive =>
    \A i \in Idx :
      /\ fragTmp[i].rows = [k \in 1..Len(fragTmp[i].rows) |-> k]
      /\ fragFile[i].rows = [k \in 1..Len(fragFile[i].rows) |-> k]
      /\ Len(fragTmp[i].rows) <= tables[i].n
      /\ Len(fragFile[i].rows) <= tables[i].n
      /\ Len(fragTmp[i].rows) <= task[i].it
C21_Witness ==
  /\ N = 1
  /\ tables[1].n = 3
  /\ task[1].pc = "done"
  /\ IterationFailed(1)
  /\ fragFile[1].exists
  /\ fragFile[1].rows = <<1, 2>>

\* the fragment task of table i took the row sequence (_prepare_table_stream,
\* line 500)
StreamTaken(i) == task[i].pc \notin {"queued", "cancelled", "raised"}
\* the fallback rendered table i inline from df (lines 1294-1297)
InlineRendered(i) ==
  \E k \in DOMAIN body_parts :
    body_parts[k].inline /\ body_parts[k].idx = i /\ ~body_parts[k].failed
\* the number of times render_html went through the rows of table i so far
Iterations(i) ==
  (IF StreamTaken(i) THEN 1 ELSE 0) + (IF InlineRendered(i) THEN 1 ELSE 0)

\* C22 as stated: during one render_html invocation the row sequence of each
\* input table is iterated at most once, fragment rendering and fallback
\* inline rendering counted together.
C22_RowsIteratedAtMostOnce == \A i \in Idx : Iterations(i) <= 1

\* C23 (SpecCells): in the fragment of the table with 1-based index i every
\* data-table-index attribute (the three header buttons, every <th> and every
\* sort button) is i-1, and the header cell of the column at 0-based position
\* c carries data-col-index = c and the id '<table id>-th-<c>'.
C23_DataAttributesZeroBased ==
  FragDirLive =>
    \A i \in Idx :
      \A file \in {fragTmp[i], fragFile[i]} :
        file.exists =>
          /\ file.idx = i
          /\ Len(file.buttons) = 3
          /\ \A b \in DOMAIN file.buttons : file.buttons[b] = i - 1
          /\ Len(file.thead) = tables[i].cols
          /\ \A p \in DOMAIN file.thead :
               /\ file.thead[p].table_index = i - 1
               /\ file.thead[p].sort_table_index = i - 1
               /\ file.thead[p].col_index = p - 1
               /\ file.thead[p].sort_col_index = p - 1
               /\ file.thead[p].id = <<<<"table", i>>, "th", p - 1>>
C23_Witness ==
  /\ N = 2
  /\ tables[2].cols = 2
  /\ fragFile[2].exists
  /\ fragFile[2].closed
  /\ fragFile[2].buttons = <<1, 1, 1>>
  /\ fragFile[2].thead[1].col_index = 0 /\ fragFile[2].thead[1].table_index = 1
  /\ fragFile[2].thead[2].col_index = 1 /\ fragFile[2].thead[2].table_index = 1
  /\ fragFile[2].thead[2].id = <<<<"table", 2>>, "th", 1>>

\* a cancellation check of task i saw the flag set (before row cancelAt)
SawCancel(i) == task[i].cancelAt # 0
\* task i recorded a fragment write failure
WriteFailed(i) ==
  \E k \in DOMAIN task[i].warns : task[i].warns[k].msg = "fragment write failed"

\* C24 (SpecFrag): the cancel flag is checked before each row.  Once a check
\* saw the flag set the task is past its row loop, has recorded exactly one
\* warn-level "canceled" warning carrying its table, and the fragment holds
\* exactly the rows written before that check; when the write does not fail
\* the fragment file is finalised with its closing markup and promoted.  While
\* the flag is set, the step a task takes at the head of its loop ends the loop
\* without writing, and a row is written only by a task whose check preceded
\* the flag and which then returns to the head of the loop: at most one more
\* row per running task.
C24_CancelStopsAtNextRow ==
  /\ [](FragDirLive =>
         \A i \in Idx :
           SawCancel(i) =>
             /\ cancel
             /\ task[i].pc \in {"close", "done"}
             /\ Cardinality({k \in DOMAIN task[i].warns :
                               task[i].warns[k].msg = "canceled"}) = 1
             /\ \E k \in DOMAIN task[i].warns :
                  task[i].warns[k] = [level |-> "warn", msg |-> "canceled", table |-> i]
             /\ RowsWritten(i) = [k \in 1..(task[i].cancelAt - 1) |-> k]
             /\ (task[i].pc = "done" /\ ~WriteFailed(i)) =>
                  /\ fragFile[i].exists /\ fragFile[i].closed
                  /\ fragFile[i].rows = [k \in 1..(task[i].cancelAt - 1) |-> k]
                  /\ fragTmp[i] = NoFile)
  /\ [][\A i \in Idx :
          cancel =>
            /\ (task[i].pc = "loop" /\ task'[i] # task[i]) =>
                 task'[i].pc = "close" /\ fragTmp'[i] = fragTmp[i]
            /\ Len(fragTmp'[i].rows) > Len(fragTmp[i].rows) =>
                 /\ task[i].pc = "row" /\ task'[i].pc = "loop"
                 /\ Len(fragTmp'[i].rows) = Len(fragTmp[i].rows) + 1]_vars
C24_Witness ==
  /\ N = 1
  /\ tables[1].n = 3
  /\ cancel
  /\ task[1].pc = "done"
  /\ task[1].cancelAt = 3
  /\ task[1].warns = <<CanceledWarning(1)>>
  /\ fragFile[1].exists /\ fragFile[1].closed
  /\ fragFile[1].rows = <<1, 2>>

\* the processing of the row task i had fetched last raised (the row was
\* fetched and counted, and is not in the file)
RowProcessingFailed(i) ==
  IterationFailed(i) /\ task[i].it = Len(RowsWritten(i)) + 1

\* C25 as stated (SpecFrag): a failure confined to the processing of one row
\* is recorded as a warning and the rows that follow it in the same table are
\* still rendered into the fragment.
C25_RowFailureKeepsLaterRows ==
  FragDirLive =>
    \A i \in Idx :
      (task[i].pc = "done" /\ RowProcessingFailed(i) /\ ~WriteFailed(i)
         /\ ~cancel /\ cfg.table_row_limit = 0) =>
        /\ \E k \in DOMAIN task[i].warns : task[i].warns[k].table = i
        /\ \A r \in (task[i].it + 1)..tables[i].n : r \in Range(fragFile[i].rows)

\* the cells of table i on which the renderer raises
FailingCells(i) == {x \in renderer.fails : x[1] = i}
\* the "markdown render failed" warnings of task i
MarkdownWarningsOf(i) ==
  {k \in DOMAIN task[i].warns : task[i].warns[k].msg = "markdown render failed"}

\* C26 (SpecCells): when the renderer raises on a cell, the cell is written
\* as escaped text and exactly one warn-level warning carrying the table, the
\* row and the column index is recorded; the row is written with all its
\* cells in column order, and the later rows are processed: a task that was
\* not cancelled and met no other failure writes every row of the table.
C26_CellFailureIsEscapedAndWarned ==
  FragDirLive =>
    \A i \in Idx :
      /\ \A file \in {fragTmp[i], fragFile[i]} :
           /\ Len(file.cells) = Len(file.rows)
           /\ \A k \in DOMAIN file.rows :
                /\ Len(file.cells[k]) = tables[i].cols
                /\ \A p \in DOMAIN file.cells[k] :
                     /\ file.cells[k][p].col = p - 1
                     /\ file.cells[k][p].out =
                          (IF <<i, file.rows[k], p - 1>> \in renderer.fails
                           THEN "escaped" ELSE "html")
      /\ \A x \in FailingCells(i) :
           Cardinality({k \in DOMAIN task[i].warns :
                          task[i].warns[k] = [level |-> "warn", msg |-> "markdown render failed",
                                              table |-> i, row |-> x[2], col |-> x[3]]})
             = (IF x[2] \in Range(RowsWritten(i)) THEN 1 ELSE 0)
      /\ Cardinality(MarkdownWarningsOf(i))
           = Cardinality({x \in FailingCells(i) : x[2] \in Range(RowsWritten(i))})
      /\ (task[i].pc = "done" /\ ~SawCancel(i) /\ ~IterationFailed(i) /\ ~WriteFailed(i)) =>
           fragFile[i].rows = [k \in 1..tables[i].n |-> k]
C26_Witness ==
  /\ N = 1
  /\ tables[1] = [n |-> 2, cols |-> 2]
  /\ renderer.fails = {<<1, 1, 1>>}
  /\ task[1].pc = "done"
  /\ task[1].warns = <<MarkdownFailedWarning(1, 1, 1)>>
  /\ fragFile[1].rows = <<1, 2>>
  /\ fragFile[1].cells[1][1].out = "html"
  /\ fragFile[1].cells[1][2].out = "escaped"
  /\ fragFile[1].cells[2][1].out = "html" /\ fragFile[1].cells[2][2].out = "html"

\* the document at the primary output path was written, or its write was tried
PrimaryOutputWritten == \E x \in written : x.name = <<>> /\ x.kind \in {"doc", "failed"}

\* C27 as stated (SpecParts): render_html takes the split path if and only if
\* split_threshold T > 0 and the total row count is strictly greater than T;
\* when it takes it, the invocation of the caller renders nothing itself (no
\* fragment directory, no file at the primary output path): it writes part
\* files and the index document only, and returns.
C27_SplitIffOverThreshold ==
  (stack # <<>> /\ stack[1].pc # "entry") =>
    /\ stack[1].split <=> (cfg.split_threshold > 0 /\ SumSeq(stack[1].tabs) > cfg.split_threshold)
    /\ stack[1].split =>
         /\ stack[1].pc # "render"
         /\ ~stack[1].failed
         /\ ~PrimaryOutputWritten
         /\ \A x \in written : x.kind = "index" \/ x.name # <<>>

\* C28: when the fallback is taken the toc has exactly one entry per input
\* table, in input order, and the body one inline piece per table; a table
\* whose inline rendering failed has its entry and a placeholder piece without
\* rows under the heading id "Table{idx}"; the anchor of every entry is the id
\* of the heading of the piece of its table.
C28_FallbackTocCoversEveryTable ==
  (need_fallback /\ opc \in {"open", "body", "tail", "replace", "cleanup", "returned", "failed"}) =>
    /\ TocItemIdx = [k \in Idx |-> k]
    /\ PartIdx = [k \in Idx |-> k]
    /\ \A k \in Idx :
         /\ toc_items[k].anchor = <<"Table", k>>
         /\ body_parts[k].head = toc_items[k].anchor
         /\ body_parts[k].failed => body_parts[k].rows = <<>>
    /\ \A d \in NewDocs :
         d.complete =>
           /\ TocIdx(d) = [k \in Idx |-> k]
           /\ BodyIdx(d) = [k \in Idx |-> k]
           /\ \A k \in Idx : d.toc[k].anchor = d.body[k].head
           /\ \A k \in Idx : d.toc[k].anchor \in Headings(d)
C28_Witness ==
  /\ N = 2
  /\ opc = "returned"
  /\ need_fallback
  /\ body_parts[1].failed
  /\ ~body_parts[2].failed
  /\ outFile.complete /\ ~outFile.old
  /\ outFile.toc = <<TocItem(1, <<"Table", 1>>), TocItem(2, <<"Table", 2>>)>>
  /\ outFile.body[1].head = <<"Table", 1>> /\ outFile.body[1].rows = <<>>

\* the error-level warnings recorded for tasks whose future raised
TaskFailureWarnings ==
  {k \in DOMAIN warnings :
     warnings[k].level = "error" /\ warnings[k].msg = "table render failed"}

\* C29 (SpecProgress): every future the collection loop has taken is finished and is
\* accounted for exactly once, by a fragment-map entry under its own index or
\* by an error-level warning; unless the run is interrupted the collection
\* step ends only when every submitted task has finished, and then entries
\* plus task-failure warnings equal N.
C29_EveryTaskAccountedOnce ==
  /\ opc # "interrupted" =>
       /\ \A i \in collected : Finished(i)
       /\ DOMAIN fragments_map = {i \in collected : task[i].pc = "done"}
       /\ Cardinality(TaskFailureWarnings) = Cardinality({i \in collected : task[i].pc = "raised"})
       /\ Cardinality(DOMAIN fragments_map) + Cardinality(TaskFailureWarnings)
            = Cardinality(collected)
       /\ Len(fragOrder) = Cardinality(DOMAIN fragments_map)
  /\ opc \notin {"collect", "interrupted"} =>
       /\ collected = Idx
       /\ \A i \in Idx : Finished(i)
       /\ Cardinality(DOMAIN fragments_map) + Cardinality(TaskFailureWarnings) = N
C29_Witness ==
  /\ N = 2
  /\ opc = "assemble"
  /\ task[1].pc = "raised"
  /\ task[2].pc = "done"
  /\ DOMAIN fragments_map = {2}
  /\ Cardinality(TaskFailureWarnings) = 1

\* C30 (SpecProgress): the progress callback is called once per collected
\* fragment with (finished, total): the k-th call receives (k, N), so finished
\* takes the values 1, 2, ... with none lost or repeated whatever the order in
\* which the tasks complete, and never exceeds the total; with no callback
\* configured nothing is called; an exception raised by the callback leaves no
\* trace in the result: no warning is recorded for it, the fragment stays in
\* the map and the render returns its output path.
C30_ProgressCountsCollectedFragments ==
  /\ progress = [k \in 1..Len(progress) |-> <<k, N>>]
  /\ \A k \in DOMAIN progress : progress[k][1] <= progress[k][2]
  /\ finished_tables = Len(fragOrder)
  /\ finished_tables <= N
  /\ Len(progress) = (IF cfg.progress_callback = "none" THEN 0 ELSE finished_tables)
  /\ opc # "interrupted" =>
       /\ Cardinality(TaskFailureWarnings) = Cardinality({i \in collected : task[i].pc = "raised"})
       /\ DOMAIN fragments_map = {i \in collected : task[i].pc = "done"}
  /\ opc \in {"cleanup", "returned"} =>
       /\ result.warnings = warnings
       /\ result.output = "out_path"
       /\ result.tables = N
       /\ result.rows = total_rows
       /\ \A k \in DOMAIN warnings :
            \/ warnings[k] \in {TaskFailedWarning, NoFragmentsWarning, NoRowsWarning}
            \/ \E i \in Produced : HasWarning(task[i].warns, warnings[k])
C30_Witness ==
  /\ N = 2
  /\ cfg.progress_callback = "raises"
  /\ opc = "returned"
  /\ fragOrder = <<2, 1>>
  /\ progress = <<<<1, 2>>, <<2, 2>>>>
  /\ result.returned
  /\ result.warnings = <<>>
  /\ result.output = "out_path"

\* C31 (SpecPool): the file frag_{i}.html changes only in a step of the task
\* of table i (or when the directory is removed at the end), it holds the
\* fragment of table i, and the orchestrator takes a future, and reads its
\* fragment file, only when the task has completed: what it reads is absent
\* or a complete fragment, never a partially written one.
C31_FragmentFileOwnedByItsTask ==
  /\ [](\A i \in Idx :
          /\ fragFile[i].exists => fragFile[i].idx = i /\ fragFile[i].closed
          /\ fragTmp[i].exists => fragTmp[i].idx = i
          /\ i \in collected => task[i].pc \in {"done", "raised"}
          /\ i \in DOMAIN fragments_map =>
               /\ task[i].pc = "done"
               /\ fragments_map[i].content.exists =>
                    fragments_map[i].content.closed /\ fragments_map[i].content.idx = i
               /\ FragDirLive => fragments_map[i].content = fragFile[i])
  /\ [][\A i \in Idx :
          (fragFile'[i] # fragFile[i] \/ fragTmp'[i] # fragTmp[i]) =>
            \/ task[i].pc \in {"queued", "row", "close"} /\ task'[i] # task[i]
            \/ opc = "cleanup" /\ opc' = "returned"]_vars
C31_Witness ==
  /\ N = 2
  /\ opc = "collect"
  /\ collected = {2}
  /\ 2 \in DOMAIN fragments_map /\ fragments_map[2].content.exists
  /\ fragments_map[2].content.closed
  /\ task[1].pc = "row"
  /\ fragTmp[1].exists /\ ~fragTmp[1].closed
  /\ ~fragFile[1].exists

\* C32 (SpecDir): when render_html has returned, after a successful final
\* write and after a failed one alike, the temporary fragment directory and
\* every fragment file in it are gone, unless their removal itself failed.
RemovalFailed == opc = "returned" /\ tmp_frag_dir \in dirs
C32_FragmentsGoneOnReturn ==
  result.returned /\ tmp_frag_dir = FragsDir /\ ~RemovalFailed =>
    /\ FragsDir \notin dirs
    /\ \A i \in Idx : fragFile[i] = NoFile /\ fragTmp[i] = NoFile

\* C39 (SpecDir): the cleanup step leaves out_dir and the document at
\* out_path alone, and when the fragments were written to out_dir itself
\* (mkdir of the fragment directory raised) it removes no directory and no
\* file at all.
C39_CleanupSparesOutput ==
  /\ [](OutDir \in dirs)
  /\ [][opc = "cleanup" =>
          /\ outFile' = outFile
          /\ OutDir \in dirs'
          /\ tmp_frag_dir = OutDir =>
               dirs' = dirs /\ fragFile' = fragFile /\ fragTmp' = fragTmp]_vars
C39_Witness ==
  /\ N = 2
  /\ opc = "returned"
  /\ tmp_frag_dir = OutDir
  /\ dirs = {OutDir}
  /\ fragFile[1].exists /\ fragFile[2].exists
  /\ outFile # outOld /\ outFile # NoDoc

\* C37 (SpecDir): in a document assembled from fragment files, the tables
\* with an entry in the table of contents are exactly the tables whose
\* fragment content was copied into the body.
C37_TocMatchesCopiedFragments ==
  \A d \in NewDocs :
    d.complete /\ ~need_fallback => Range(TocIdx(d)) = Range(BodyIdx(d))

\* C38 (SpecFrag): the number in the footer 'Rows: k' of a finished fragment
\* is the number of data rows written to that fragment, whatever ended the
\* row loop.
C38_FooterCountsWrittenRows ==
  \A i \in Idx :
    fragFile[i].exists /\ fragFile[i].closed => fragFile[i].summary = Len(fragFile[i].rows)

\* C33 (SpecTitles): the display title is taken from the first source that
\* has something to offer: the table's title, its name, the first non-empty
\* value of the first sampled row (an empty-string first cell is passed over
\* for a later non-empty one), the first column name, "Table {index}"; it is
\* never longer than 120 characters, a longer text being cut to 117
\* characters followed by "...".
NonEmpty(v) == v # None /\ v # <<>>
NonEmptyCells(row) == {c \in DOMAIN row : NonEmpty(row[c].raw)}
FirstAvailable(df, idx) ==
  IF NonEmpty(df.title) THEN df.title
  ELSE IF NonEmpty(df.name) THEN df.name
  ELSE IF df.rows # <<>> /\ NonEmptyCells(df.rows[1]) # {}
  THEN df.rows[1][CHOOSE c \in NonEmptyCells(df.rows[1]) :
                    \A d \in NonEmptyCells(df.rows[1]) : c <= d].raw
  ELSE IF df.cols # <<>> THEN df.cols[1]
  ELSE <<"T", "a", "b", "l", "e", " ">> \o Digits(idx)
Normalised(str) == Strip(SubRuns(str, "space", " "))
C33_DisplayTitleFromFirstAvailable ==
  \A i \in DOMAIN titles :
    LET want == Normalised(FirstAvailable(dfs[i], i))
        got == titles[i].display_title
    IN /\ Len(got) <= 120
       /\ Len(want) <= 120 => got = want
       /\ Len(want) > 120 => got = SubSeq(want, 1, 117) \o <<".", ".", ".">>

\* C34 (SpecTitles): the title ids of distinct tables are pairwise distinct,
\* as derived by the fragment tasks and as extracted for the table of
\* contents, also when two tables have the same display title.
C34_TitleIdsPairwiseDistinct ==
  /\ \A i, j \in DOMAIN titles : i # j => titles[i].title_id # titles[j].title_id
  /\ \A i, j \in DOMAIN metas : i # j => metas[i].title_id # metas[j].title_id

\* C35 (SpecMeta): the metadata extracted from a fragment's content holds
\* the title id written in the title heading and the ids of the section
\* headings the task wrote, in row order; from an empty or unreadable
\* content it holds the id "Table{i}", the text "Table {i}" and no section.
RECURSIVE WrittenSectionIds(_, _, _)
WrittenSectionIds(i, rows, r_idx) ==
  IF r_idx > Len(rows) THEN <<>>
  ELSE LET row == rows[r_idx]
           plain == IF row = <<>> THEN <<>> ELSE Strip(PlainOf(row[1].html))
           heading == row # <<>> /\ NonEmpty(row[1].raw) /\ IsHeading(plain)
       IN (IF heading THEN <<SectionId(i, r_idx, plain)>> ELSE <<>>)
            \o WrittenSectionIds(i, rows, r_idx + 1)
ExtractedSectionIds(i) == [k \in DOMAIN metas[i].sections |-> metas[i].sections[k].id]
C35_ExtractionRecoversWrittenIds ==
  \A i \in DOMAIN metas :
    IF contents[i] = <<>>
    THEN /\ metas[i].title_id = <<"T", "a", "b", "l", "e">> \o Digits(i)
         /\ metas[i].title_text = <<"T", "a", "b", "l", "e", " ">> \o Digits(i)
         /\ metas[i].sections = <<>>
    ELSE /\ metas[i].title_id = titles[i].title_id
         /\ ExtractedSectionIds(i) = WrittenSectionIds(i, dfs[i].rows, 1)

\* C36 (SpecRuns): two invocations that run at the same time on the same
\* output directory work in different fragment directories, and no step of
\* one of them replaces or removes a fragment file the other has written.
Started(r) == runs[r].pc # "start"
Active(r) == runs[r].pc \in {"render", "cleanup"}
FilesOf(r) == {f \in disk.files : f.owner = r}
C36_InvocationsKeepApart ==
  /\ [](\A r, q \in DOMAIN runs :
          r # q /\ Active(r) /\ Active(q) => runs[r].dir # runs[q].dir)
  /\ [][\A r \in DOMAIN runs :
          Active(r) /\ runs'[r] = runs[r] => FilesOf(r) \subseteq disk'.files]_vars

====
